---------------------------- MODULE Spec2Model ----------------------------
(***************************************************************************)
(* Model of the wave-synchronised strategy executor of NZM_CMD             *)
(* (src/src/tower_defense.rs): the wave monitor, the viewport tracker, the *)
(* per-wave executor and the top-level run loop.                           *)
(*                                                                         *)
(* Time.  Instants are whole seconds; the clock advances where the code    *)
(* sleeps a second or more.  Sub-second sleeps take no model time.         *)
(*                                                                         *)
(* Device.  The HumanDriver mutex is taken by the control thread alone, so *)
(* it is never poisoned and every self.driver.lock() succeeds.  The device *)
(* actions a step issues are recorded, in order, in devlog.                *)
(*                                                                         *)
(* Numbers.  Wave numbers and seconds are integers.  Every f32 pixel       *)
(* quantity (map pixels, camera offsets, safe-zone bounds) is held in      *)
(* HALF PIXELS, so that the code's `w as f32 / 2.0` is exact: the model    *)
(* value 2*p stands for the f32 value p.  Px(p) converts a whole-pixel     *)
(* constant of the source to that unit.                                    *)
(*                                                                         *)
(* Option<T> is a sequence: <<>> is None, <<v>> is Some(v).                *)
(***************************************************************************)
EXTENDS Integers, Sequences, FiniteSets, TLC

(***************************************************************************)
(* Program constants                                                       *)
(***************************************************************************)
MIN_WAVE_INTERVAL_SECS == 60
SCREEN_HEIGHT == 1080
SAFE_X1 == 200
SAFE_Y1 == 200
SAFE_X2 == 1720
SAFE_Y2 == 880
MOVE_SPEED == 720
MIN_MOVE == 5
POLL_SLEEP_SECS == 10
WAIT_SLEEP_SECS == 1

(***************************************************************************)
(* Bounds of the model                                                     *)
(***************************************************************************)
MaxTime == 130
MaxReading == 4

\* the wave counts a recognition sample can show
Readings == 0 .. MaxReading

Px(p) == 2 * p
None == <<>>
Some(v) == <<v>>
IsSome(o) == o /= <<>>
Unwrap(o) == o[1]
Max(a, b) == IF a >= b THEN a ELSE b
Abs(a) == IF a >= 0 THEN a ELSE -a
Clamp(v, lo, hi) == IF v < lo THEN lo ELSE IF v > hi THEN hi ELSE v

VARIABLES
    pc,                       \* position of the control thread
    now,                      \* Instant::now(), in whole seconds
    last_confirmed_wave,      \* TowerDefenseApp.last_confirmed_wave
    last_wave_change_time,    \* TowerDefenseApp.last_wave_change_time
    detected,                 \* the reading handed to the last validate call (Option)
    accepted_now,             \* the last poll or feed produced a validated transition
    confirmed,                \* history: the accepted readings, in order
    script,                   \* SpecFeed: the readings to feed, in order
    nfed,                     \* SpecFeed: how many of them have been fed
    in_time,                  \* history: no reading last+1 arrived inside the cool-down
    map_meta,                 \* TowerDefenseApp.map_meta (Option<MapMeta>)
    camera_offset_x,          \* TowerDefenseApp.camera_offset_x
    camera_offset_y,          \* TowerDefenseApp.camera_offset_y
    cam_before,               \* history: camera_offset_y when the last camera call began
    cam_target,               \* history: ty of the last ensure call (None after setup_view)
    devlog,                   \* device actions issued by the last step, in order
    pixel_args,               \* SpecPixel: the footprint last converted
    pixel,                    \* SpecPixel: what get_absolute_map_pixel returned
    strategy_buildings,       \* TowerDefenseApp.strategy_buildings
    strategy_upgrades,        \* TowerDefenseApp.strategy_upgrades
    strategy_demolishes,      \* TowerDefenseApp.strategy_demolishes
    active_loadout,           \* TowerDefenseApp.active_loadout
    placed_uids,              \* TowerDefenseApp.placed_uids
    completed_upgrade_keys,   \* TowerDefenseApp.completed_upgrade_keys
    completed_demolish_uids,  \* TowerDefenseApp.completed_demolish_uids
    phase_call,               \* history: <<wave, is_late>> of the last execute_wave_phase
    phase_repeat,             \* history: the call before it had the same arguments
    ledger_before,            \* history: the three ledgers when the last call began
    trap_lookup,              \* TowerDefenseApp.trap_lookup: name -> select_pos
    load_ok,                  \* history: which of the three files run could load
    ocr_text,                 \* the text nav.ocr_area returned to the last sample
    sample,                   \* what the last recognize_wave_status returned (Option)
    seen_start,               \* history: the initial wait saw a wave count > 0
    prep_runs,                \* history: calls of execute_prep_logic
    setup_runs,               \* history: calls of setup_view
    iter,                     \* history: what the current poll iteration has run
    routine,                  \* SpecLock: the part of run the control thread is in
    ip,                       \* SpecLock: index of its next step in that part
    driver_lock,              \* the HumanDriver mutex: "free", "main" or "poisoned"
    device_lock,              \* owner of the InputDevice mutex: "free", "main" or "hb"
    hb_pc,                    \* position of the keep-alive thread of main
    held_prims,               \* history: primitives issued in the last driver-lock scope
    held_sleeps,              \* history: sleeps made inside the last driver-lock scope
    hb_sent,                  \* history: the last step was the keep-alive signal
    nav_config,               \* SpecNav: the scene-graph configuration as written
    nav_graph,                \* NavEngine's graph: None until loaded, else Some(graph)
    nav_query,                \* SpecNav: <<start, target>> of the last find_path
    nav_path,                 \* SpecNav: what the last find_path returned
    scene_sample,             \* SpecScene: the anchors that match the live sample
    scene_found,              \* SpecScene: what identify_current_scene returned
    nav_step,                 \* execute_path: index of the transition being handled
    nav_outcome,              \* history: how the last navigate ended
    nav_result,               \* the NavResult main received (Option)
    key_query,                \* SpecKey: <<loadout, name>> of the last get_trap_key
    key_found,                \* SpecKey: the hotkey it returned (Option)
    tool_scenes,              \* MapBuilderTool.scenes (ids only)
    current_scene_index       \* MapBuilderTool.current_scene_index

waveVars == <<last_confirmed_wave, last_wave_change_time, detected, accepted_now,
              confirmed>>
feedVars == <<script, nfed, in_time>>

camVars == <<camera_offset_x, camera_offset_y, cam_before, cam_target>>
pixelVars == <<pixel_args, pixel>>

configVars == <<map_meta, strategy_buildings, strategy_upgrades, strategy_demolishes,
                active_loadout, trap_lookup, load_ok>>
ledgerVars == <<placed_uids, completed_upgrade_keys, completed_demolish_uids>>
phaseVars == <<phase_call, phase_repeat, ledger_before>>

runVars == <<ocr_text, sample, seen_start, prep_runs, setup_runs, iter>>

lockVars == <<routine, ip, driver_lock, device_lock, hb_pc, held_prims, held_sleeps,
              hb_sent>>

mainVars == <<nav_step, nav_outcome, nav_result>>
keyVars == <<key_query, key_found>>
toolVars == <<tool_scenes, current_scene_index>>
navVars == <<nav_config, nav_graph, nav_query, nav_path, scene_sample, scene_found,
             mainVars, keyVars, toolVars>>

vars == <<pc, now, waveVars, feedVars, configVars, camVars, devlog, pixelVars,
          ledgerVars, phaseVars, runVars, lockVars, navVars>>

(***************************************************************************)
(* Initial values                                                          *)
(***************************************************************************)
\* TowerDefenseApp::new: the fields a run mutates
NewApp ==
    /\ last_confirmed_wave = 0
    /\ last_wave_change_time = now
    /\ camera_offset_x = 0
    /\ camera_offset_y = 0
    /\ placed_uids = {}
    /\ completed_upgrade_keys = {}
    /\ completed_demolish_uids = {}

\* TowerDefenseApp::new: no strategy, no loadout
NoStrategy ==
    /\ strategy_buildings = <<>>
    /\ strategy_upgrades = <<>>
    /\ strategy_demolishes = <<>>
    /\ active_loadout = <<>>
    /\ trap_lookup = <<>>

\* TowerDefenseApp::new: nothing loaded
NothingLoaded ==
    /\ map_meta = None
    /\ NoStrategy

\* the history variables before anything has happened
NoHistory ==
    /\ detected = None
    /\ accepted_now = FALSE
    /\ confirmed = <<>>
    /\ nfed = 0
    /\ in_time = TRUE
    /\ cam_before = 0
    /\ cam_target = None
    /\ devlog = <<>>
    /\ pixel_args = <<>>
    /\ pixel = None
    /\ phase_call = None
    /\ phase_repeat = FALSE
    /\ ledger_before = <<{}, {}, {}>>
    /\ ocr_text = <<>>
    /\ sample = None
    /\ seen_start = FALSE
    /\ prep_runs = 0
    /\ setup_runs = 0
    /\ iter = <<>>
    /\ load_ok = <<>>

\* the specifications that take each handler as one step leave the locks free
\* and the keep-alive thread out
NoThreads ==
    /\ routine = <<"none">>
    /\ ip = 1
    /\ driver_lock = "free"
    /\ device_lock = "free"
    /\ hb_pc = "off"
    /\ held_prims = 0
    /\ held_sleeps = 0
    /\ hb_sent = FALSE

\* the specifications of the strategy executor leave the navigator out
\* main has not called navigate
NoMain ==
    /\ nav_step = 0
    /\ nav_outcome = "none"
    /\ nav_result = None

\* get_trap_key has not been called on its own
NoKey ==
    /\ key_query = <<>>
    /\ key_found = None

\* the authoring tool is not running
NoTool ==
    /\ tool_scenes = <<>>
    /\ current_scene_index = 0

NoSide == NoKey /\ NoTool

NoGraph ==
    /\ NoMain
    /\ nav_config = <<>>
    /\ nav_graph = None
    /\ nav_query = <<>>
    /\ nav_path = None
    /\ scene_sample = {}
    /\ scene_found = None

NoNav == NoGraph /\ NoSide

(***************************************************************************)
(* WaveMonitor: validate_wave_transition                                   *)
(***************************************************************************)
\* now.duration_since(last_wave_change_time).as_secs()
Elapsed(t_now, t_last) == t_now - t_last

\* mutant: any later wave is taken for the next one
IsNextWave_AnyHigher(last, d) == d > last

\* mutant: a reading one wave ahead is taken for the next one too
IsNextWave_OrSkipOne(last, d) == d = last + 1 \/ d = last + 2

IsNextWave(last, d) == d = last + 1

\* mutant: the first wave has a cool-down too
IsLongEnough_NoFirstWave(last, elapsed) == elapsed >= MIN_WAVE_INTERVAL_SECS

\* mutant: the interval must be exceeded
IsLongEnough_Strict(last, elapsed) == elapsed > MIN_WAVE_INTERVAL_SECS \/ last = 0

IsLongEnough(last, elapsed) == elapsed >= MIN_WAVE_INTERVAL_SECS \/ last = 0

\* the bool the function returns
ValidateAccepts(last, t_last, t_now, d) ==
    IsNextWave(last, d) /\ IsLongEnough(last, Elapsed(t_now, t_last))

\* the whole call: the fields it assigns
validate_wave_transition(d) ==
    /\ accepted_now' = ValidateAccepts(last_confirmed_wave, last_wave_change_time, now, d)
    /\ IF accepted_now'
         THEN /\ last_confirmed_wave' = d
              /\ last_wave_change_time' = now
              /\ confirmed' = Append(confirmed, d)
         ELSE UNCHANGED <<last_confirmed_wave, last_wave_change_time, confirmed>>

(***************************************************************************)
(* ViewportTracker                                                         *)
(***************************************************************************)
\* MapMeta: grid_pixel_size in whole pixels, offset_x, offset_y and bottom in
\* half pixels
MapMeta(gps, ox, oy, bottom) ==
    [grid_pixel_size |-> gps, offset_x |-> ox, offset_y |-> oy, bottom |-> bottom]

\* mutant: the half extent taken by integer division
AxisPixel_IntHalf(off, g, extent, gps) == off + 2 * (g + extent \div 2) * gps

\* offset + ((g as f32 + extent as f32 / 2.0) * grid_pixel_size), in half pixels:
\* 2 * (g + extent/2) * gps = (2*g + extent) * gps
AxisPixel(off, g, extent, gps) == off + (2 * g + extent) * gps

\* mutant: without map metadata every footprint resolves to the map's origin
get_absolute_map_pixel_Origin(meta, gx, gy, w, h) ==
    IF ~IsSome(meta) THEN Some(<<0, 0>>)
    ELSE LET m == Unwrap(meta)
         IN  Some(<<AxisPixel(m.offset_x, gx, w, m.grid_pixel_size),
                    AxisPixel(m.offset_y, gy, h, m.grid_pixel_size)>>)

\* get_absolute_map_pixel: None without map metadata
get_absolute_map_pixel(meta, gx, gy, w, h) ==
    IF ~IsSome(meta) THEN None
    ELSE LET m == Unwrap(meta)
         IN  Some(<<AxisPixel(m.offset_x, gx, w, m.grid_pixel_size),
                    AxisPixel(m.offset_y, gy, h, m.grid_pixel_size)>>)

\* a device action
Act(op, key, x, y, ms) == [op |-> op, key |-> key, x |-> x, y |-> y, ms |-> ms]
\* a logged device action: the category and item it was issued for
Entry(cat, item, a) == [cat |-> cat, item |-> item, act |-> a]
RECURSIVE Tagged(_, _, _)
Tagged(cat, item, acts) ==
    IF acts = <<>> THEN <<>>
    ELSE <<Entry(cat, item, Head(acts))>> \o Tagged(cat, item, Tail(acts))

\* (meta.bottom - screen_height).max(0.0)
MaxOffsetY(bottom) == Max(bottom - Px(SCREEN_HEIGHT), 0)

\* ty > meta.bottom - (screen_height - z_y1)
IsBottomZone(ty, bottom) == ty > bottom - (Px(SCREEN_HEIGHT) - Px(SAFE_Y1))

\* mutant: the bounds of the safe zone taken as exclusive
InSafeBand_Exclusive(rel_y) == rel_y > Px(SAFE_Y1) /\ rel_y < Px(SAFE_Y2)

\* rel_y >= z_y1 && rel_y <= z_y2
InSafeBand(rel_y) == rel_y >= Px(SAFE_Y1) /\ rel_y <= Px(SAFE_Y2)

\* (z_y1 + z_y2) as f32 / 2.0, in half pixels
SafeCenterY == SAFE_Y1 + SAFE_Y2

\* mutant: each move covers half of the way to the centred offset
CenteredOffset_HalfWay(off, ty, bottom) ==
    Clamp(off + ((ty - off) - SafeCenterY) \div 2, 0, MaxOffsetY(bottom))

\* mutant: the centred offset is not clamped
CenteredOffset_NoClamp(off, ty, bottom) == off + ((ty - off) - SafeCenterY)

\* (camera_offset_y + (rel_y - safe_center_y)).clamp(0.0, max_offset_y)
CenteredOffset(off, ty, bottom) ==
    Clamp(off + ((ty - off) - SafeCenterY), 0, MaxOffsetY(bottom))

\* mutant: no bottom-zone policy
TargetOffset_CenterOnly(off, ty, bottom) == CenteredOffset(off, ty, bottom)

TargetOffset(off, ty, bottom) ==
    IF IsBottomZone(ty, bottom) THEN MaxOffsetY(bottom)
    ELSE CenteredOffset(off, ty, bottom)

\* dist.abs() < 5.0
TooSmall(dist) == Abs(dist) < Px(MIN_MOVE)

\* mutant: the hold keys exchanged
CameraHold_Reversed(dist) ==
    Act("key_hold", IF dist > 0 THEN "w" ELSE "s", 0, 0,
        (Abs(dist) * 1000) \div (2 * MOVE_SPEED))

\* key_hold(if dist > 0 's' else 'w', (dist.abs() / move_speed * 1000.0) as u64)
CameraHold(dist) ==
    Act("key_hold", IF dist > 0 THEN "s" ELSE "w", 0, 0,
        (Abs(dist) * 1000) \div (2 * MOVE_SPEED))

\* the loop of ensure_target_in_safe_zone from camera offset off:
\* the offset it ends with and the holds it issued
RECURSIVE EnsureLoop(_, _, _)
EnsureLoop(off, ty, bottom) ==
    IF InSafeBand(ty - off) THEN [off |-> off, holds |-> <<>>]
    ELSE LET target_offset == TargetOffset(off, ty, bottom)
             dist == target_offset - off
         IN  IF TooSmall(dist) THEN [off |-> off, holds |-> <<>>]
             ELSE IF IsBottomZone(ty, bottom)
                  THEN [off |-> target_offset, holds |-> <<CameraHold(dist)>>]
                  ELSE LET r == EnsureLoop(target_offset, ty, bottom)
                       IN  [off |-> r.off, holds |-> <<CameraHold(dist)>> \o r.holds]

\* mutant: the horizontal offset follows the target
EnsureOffsetX_Follow(off_x, tx) == tx

\* ensure_target_in_safe_zone(_tx, ty): the horizontal offset after the call;
\* _tx is not used and camera_offset_x is not assigned
EnsureOffsetX(off_x, tx) == off_x

\* ensure_target_in_safe_zone: returns at once without map metadata
ensure_target_in_safe_zone(meta, off, ty) ==
    IF ~IsSome(meta) THEN [off |-> off, holds |-> <<>>]
    ELSE EnsureLoop(off, ty, Unwrap(meta).bottom)

RECURSIVE Repeat(_, _)
Repeat(acts, n) == IF n = 0 THEN <<>> ELSE acts \o Repeat(acts, n - 1)

\* the device actions of setup_view
SetupViewActs ==
    <<Act("key_click", "o", 0, 0, 0)>>
    \o Repeat(<<Act("scroll", "", 0, -120, 0)>>, 7 * 12)
    \o Repeat(<<Act("key_hold", "w", 0, 0, 500), Act("key_hold", "a", 0, 0, 500)>>, 4)
    \o <<Act("key_hold", "w", 0, 0, 800), Act("key_hold", "a", 0, 0, 800)>>

(***************************************************************************)
(* StrategyTimeline and StrategyExecutor                                   *)
(***************************************************************************)
\* A String is a sequence of characters: <<"a">>, <<"a", "-", "1">>.
\* BuildingExport and DemolishEvent share one shape.
Building(uid, name, gx, gy, w, h, wave, late) ==
    [uid |-> uid, name |-> name, grid_x |-> gx, grid_y |-> gy, width |-> w,
     height |-> h, wave_num |-> wave, is_late |-> late]

UpgradeEvent(name, wave, late) ==
    [building_name |-> name, wave_num |-> wave, is_late |-> late]

\* Display of an integer: its decimal digits, "-" first when negative
RECURSIVE NatDigits(_)
NatDigits(n) ==
    IF n < 10 THEN <<<<"0", "1", "2", "3", "4", "5", "6", "7", "8", "9">>[n + 1]>>
    ELSE NatDigits(n \div 10) \o NatDigits(n % 10)

FormatInt(n) == IF n < 0 THEN <<"-">> \o NatDigits(-n) ELSE NatDigits(n)

FormatBool(b) == IF b THEN <<"t", "r", "u", "e">> ELSE <<"f", "a", "l", "s", "e">>

\* format!("{}-{}-{}", u.building_name, u.wave_num, u.is_late)
UpgradeKey(u) ==
    u.building_name \o <<"-">> \o FormatInt(u.wave_num) \o <<"-">> \o FormatBool(u.is_late)

\* active_loadout.iter().position(|t| t == name)
RECURSIVE Position(_, _, _)
Position(loadout, name, i) ==
    IF i > Len(loadout) THEN None
    ELSE IF loadout[i] = name THEN Some(i - 1)
    ELSE Position(loadout, name, i + 1)

\* get_trap_key: position(..).unwrap_or(0), then the match on the index
get_trap_key(loadout, name) ==
    LET p == Position(loadout, name, 1)
        index == IF IsSome(p) THEN Unwrap(p) ELSE 0
    IN  CASE index = 0 -> "4"
          [] index = 1 -> "5"
          [] index = 2 -> "6"
          [] index = 3 -> "7"
          [] OTHER -> "1"

\* `v as u16` of a clamped on-screen coordinate held in half pixels
AsU16(v) == v \div 2

\* mutant: the on-screen x is not clamped
FinalX_NoClamp(map_px, off_x) == AsU16(map_px - off_x)

\* screen_x.clamp(sz_x1, sz_x2) as u16, screen_y.clamp(sz_y1, sz_y2) as u16
FinalX(map_px, off_x) == AsU16(Clamp(map_px - off_x, Px(SAFE_X1), Px(SAFE_X2)))
FinalY(map_py, off_y) == AsU16(Clamp(map_py - off_y, Px(SAFE_Y1), Px(SAFE_Y2)))

\* The state the executor threads through a batch: the camera offset, the three
\* ledgers and the device actions issued so far.
Exec(off, placed, upgraded, demolished, log) ==
    [off |-> off, placed |-> placed, upgraded |-> upgraded,
     demolished |-> demolished, log |-> log]

\* one iteration of the loop of execute_specific_demolishes
DemolishOne(st, d, meta, off_x) ==
    LET pix == get_absolute_map_pixel(meta, d.grid_x, d.grid_y, d.width, d.height)
    IN  IF ~IsSome(pix) THEN st
        ELSE LET map_px == Unwrap(pix)[1]
                 map_py == Unwrap(pix)[2]
                 cam == ensure_target_in_safe_zone(meta, st.off, map_py)
                 acts == cam.holds \o
                         << Act("move_to", "", FinalX(map_px, off_x),
                                FinalY(map_py, cam.off), 400),
                            Act("click", "left", 0, 0, 0),
                            Act("key_click", "p", 0, 0, 0) >>
             IN  Exec(cam.off, st.placed, st.upgraded, st.demolished \cup {d.uid},
                      st.log \o Tagged("demolish", d.uid, acts))

RECURSIVE execute_specific_demolishes(_, _, _, _)
execute_specific_demolishes(st, tasks, meta, off_x) ==
    IF tasks = <<>> THEN st
    ELSE execute_specific_demolishes(DemolishOne(st, Head(tasks), meta, off_x),
                                     Tail(tasks), meta, off_x)

\* one iteration of the loop of execute_specific_placements; last_key is the
\* Option<char> the loop carries
PlaceOne(st, b, meta, off_x, loadout, last_key) ==
    LET pix == get_absolute_map_pixel(meta, b.grid_x, b.grid_y, b.width, b.height)
    IN  IF ~IsSome(pix) THEN [st |-> st, last_key |-> last_key]
        ELSE LET map_px == Unwrap(pix)[1]
                 map_py == Unwrap(pix)[2]
                 cam == ensure_target_in_safe_zone(meta, st.off, map_py)
                 key == get_trap_key(loadout, b.name)
                 acts == cam.holds \o
                         << Act("move_to", "", FinalX(map_px, off_x),
                                FinalY(map_py, cam.off), 350) >> \o
                         (IF Some(key) /= last_key
                            THEN << Act("key_click", key, 0, 0, 0) >> ELSE <<>>) \o
                         << Act("double_click", "left", 0, 0, 0) >>
             IN  [st |-> Exec(cam.off, st.placed \cup {b.uid}, st.upgraded,
                              st.demolished, st.log \o Tagged("place", b.uid, acts)),
                  last_key |-> Some(key)]

RECURSIVE PlaceLoop(_, _, _, _, _, _)
PlaceLoop(st, tasks, meta, off_x, loadout, last_key) ==
    IF tasks = <<>> THEN st
    ELSE LET r == PlaceOne(st, Head(tasks), meta, off_x, loadout, last_key)
         IN  PlaceLoop(r.st, Tail(tasks), meta, off_x, loadout, r.last_key)

\* mutant: the loop starts with a remembered hotkey
execute_specific_placements_KeyKept(st, tasks, meta, off_x, loadout) ==
    PlaceLoop(st, tasks, meta, off_x, loadout, Some("4"))

execute_specific_placements(st, tasks, meta, off_x, loadout) ==
    PlaceLoop(st, tasks, meta, off_x, loadout, None)

\* one iteration of the loop of execute_specific_upgrades
UpgradeOne(st, u, loadout) ==
    Exec(st.off, st.placed, st.upgraded \cup {UpgradeKey(u)}, st.demolished,
         st.log \o Tagged("upgrade", UpgradeKey(u),
                          << Act("key_hold", get_trap_key(loadout, u.building_name),
                                 0, 0, 800) >>))

RECURSIVE execute_specific_upgrades(_, _, _)
execute_specific_upgrades(st, tasks, loadout) ==
    IF tasks = <<>> THEN st
    ELSE execute_specific_upgrades(UpgradeOne(st, Head(tasks), loadout), Tail(tasks),
                                   loadout)

\* the filters of execute_wave_phase
\* mutant: everything scheduled from the wave on is due
Scheduled_FromWave(e, wave, late) == e.wave_num >= wave /\ e.is_late = late

\* mutant: everything scheduled up to the wave is due
Scheduled_UpTo(e, wave, late) == e.wave_num <= wave /\ e.is_late = late

Scheduled(e, wave, late) == e.wave_num = wave /\ e.is_late = late

ToDemolish(demolishes, done, wave, late) ==
    LET Pick(d) == Scheduled(d, wave, late) /\ d.uid \notin done
    IN  SelectSeq(demolishes, Pick)

\* mutant: the placed ledger is not consulted
ToPlace_IgnoreLedger(buildings, done, wave, late) ==
    LET Pick(b) == Scheduled(b, wave, late)
    IN  SelectSeq(buildings, Pick)

ToPlace(buildings, done, wave, late) ==
    LET Pick(b) == Scheduled(b, wave, late) /\ b.uid \notin done
    IN  SelectSeq(buildings, Pick)

ToUpgrade(upgrades, done, wave, late) ==
    LET Pick(u) == Scheduled(u, wave, late) /\ UpgradeKey(u) \notin done
    IN  SelectSeq(upgrades, Pick)

\* mutant: placements run before demolitions
PhaseResult_PlaceFirst(st, strategy, meta, off_x, loadout, wave, late) ==
    LET s1 == execute_specific_placements(
                  st, ToPlace(strategy.buildings, st.placed, wave, late),
                  meta, off_x, loadout)
        s2 == execute_specific_demolishes(
                  s1, ToDemolish(strategy.demolishes, s1.demolished, wave, late),
                  meta, off_x)
    IN  execute_specific_upgrades(
            s2, ToUpgrade(strategy.upgrades, s2.upgraded, wave, late), loadout)

\* execute_wave_phase from executor state st (its log empty): demolish, then
\* place, then upgrade, each selection made when its turn comes
PhaseResult(st, strategy, meta, off_x, loadout, wave, late) ==
    LET s1 == execute_specific_demolishes(
                  st, ToDemolish(strategy.demolishes, st.demolished, wave, late),
                  meta, off_x)
        s2 == execute_specific_placements(
                  s1, ToPlace(strategy.buildings, s1.placed, wave, late),
                  meta, off_x, loadout)
    IN  execute_specific_upgrades(
            s2, ToUpgrade(strategy.upgrades, s2.upgraded, wave, late), loadout)

\* the horizontal offset after the ensure calls made for the items, in order
RECURSIVE OffsetXAfter(_, _, _)
OffsetXAfter(off_x, meta, items) ==
    IF items = <<>> THEN off_x
    ELSE LET b == Head(items)
             pix == get_absolute_map_pixel(meta, b.grid_x, b.grid_y, b.width, b.height)
         IN  OffsetXAfter(IF IsSome(pix) THEN EnsureOffsetX(off_x, Unwrap(pix)[1])
                                         ELSE off_x,
                          meta, Tail(items))

\* execute_wave_phase(wave, is_late): the fields it assigns and the device
\* actions it issues
execute_wave_phase(wave, late) ==
    LET st == Exec(camera_offset_y, placed_uids, completed_upgrade_keys,
                   completed_demolish_uids, <<>>)
        strategy == [buildings |-> strategy_buildings, upgrades |-> strategy_upgrades,
                     demolishes |-> strategy_demolishes]
        r == PhaseResult(st, strategy, map_meta, camera_offset_x, active_loadout,
                         wave, late)
    IN  /\ camera_offset_y' = r.off
        /\ placed_uids' = r.placed
        /\ completed_upgrade_keys' = r.upgraded
        /\ completed_demolish_uids' = r.demolished
        /\ devlog' = r.log
        /\ phase_call' = Some(<<wave, late>>)
        /\ phase_repeat' = (phase_call = Some(<<wave, late>>))
        /\ ledger_before' = <<placed_uids, completed_upgrade_keys,
                              completed_demolish_uids>>
        /\ cam_before' = camera_offset_y
        /\ camera_offset_x' =
                OffsetXAfter(camera_offset_x, map_meta,
                             ToDemolish(strategy_demolishes, completed_demolish_uids,
                                        wave, late)
                             \o ToPlace(strategy_buildings, placed_uids, wave, late))
        /\ UNCHANGED cam_target

(***************************************************************************)
(* SpecPhase: execute_wave_phase called for any (wave, phase), in any      *)
(* order, on a loaded strategy                                             *)
(***************************************************************************)
MaxWave == 2

NameA == <<"a">>
NameB == <<"b">>

Waves == 1 .. MaxWave
Sched == Waves \X BOOLEAN

\* a 1x1 building high on the map and a 2x2 one near its bottom, whose uid and
\* name may repeat the first one's
FirstBuilding == Building(1, NameA, 1, 2, 1, 1, 1, FALSE)
SecondBuildings ==
    { Building(un[1], un[2], 3, 25, 2, 2, s[1], s[2]) :
        un \in { <<1, NameA>>, <<2, NameA>>, <<2, NameB>> }, s \in Sched }
BuildingLists ==
    { <<>>, <<FirstBuilding>> } \cup { <<FirstBuilding, b>> : b \in SecondBuildings }

DemolishLists ==
    { <<>> } \cup { << Building(1, NameA, 3, 25, 2, 2, 1, l) >> : l \in BOOLEAN }

UpgradeLists ==
    { <<>> }
    \cup { << UpgradeEvent(NameA, 1, l) >> : l \in BOOLEAN }
    \cup { << UpgradeEvent(NameA, 1, l), UpgradeEvent(NameA, 1, l) >> : l \in BOOLEAN }
    \cup { << UpgradeEvent(NameB, 1, l), UpgradeEvent(NameA, 1, l) >> : l \in BOOLEAN }

PhaseMetas == { None, Some(MapMeta(40, 0, 0, Px(1600))) }

InitPhase ==
    /\ pc = "phase"
    /\ now = 0
    /\ NewApp
    /\ NoHistory
    /\ NoNav
    /\ NoThreads
    /\ script = <<>>
    /\ map_meta \in PhaseMetas
    /\ strategy_buildings \in BuildingLists
    /\ strategy_upgrades \in UpgradeLists
    /\ strategy_demolishes \in DemolishLists
    /\ active_loadout = <<NameA, NameB>>
    /\ trap_lookup = <<>>

Phase ==
    \E wave \in Waves, late \in BOOLEAN :
        /\ pc = "phase"
        /\ execute_wave_phase(wave, late)
        /\ UNCHANGED <<pc, now, waveVars, feedVars, configVars, pixelVars, runVars,
                       lockVars, navVars>>

NextPhase == Phase

SpecPhase == InitPhase /\ [][NextPhase]_vars

CategoryRank(cat) ==
    CASE cat = "demolish" -> 1
      [] cat = "place" -> 2
      [] cat = "upgrade" -> 3

CallWave == Unwrap(phase_call)[1]
CallLate == Unwrap(phase_call)[2]
DueNow(e) == e.wave_num = CallWave /\ e.is_late = CallLate

\* C4: within one execute_wave_phase call every device action of a demolish
\* event comes before every action of a placement, and every placement action
\* before every upgrade action; each category is executed in full: with map
\* metadata loaded every demolish event and placement due in the call is in its
\* ledger afterwards, and every upgrade due is (with or without metadata).
C4_CategoryOrder ==
    IsSome(phase_call) =>
        /\ \A i, j \in 1 .. Len(devlog) :
             i < j => CategoryRank(devlog[i].cat) <= CategoryRank(devlog[j].cat)
        /\ IsSome(map_meta) =>
             /\ \A k \in 1 .. Len(strategy_demolishes) :
                  DueNow(strategy_demolishes[k]) =>
                      strategy_demolishes[k].uid \in completed_demolish_uids
             /\ \A k \in 1 .. Len(strategy_buildings) :
                  DueNow(strategy_buildings[k]) =>
                      strategy_buildings[k].uid \in placed_uids
        /\ \A k \in 1 .. Len(strategy_upgrades) :
             DueNow(strategy_upgrades[k]) =>
                 UpgradeKey(strategy_upgrades[k]) \in completed_upgrade_keys

\* one call that demolished, placed and upgraded, moving the camera for a
\* demolition and back for a placement
C4_Witness ==
    /\ IsSome(phase_call)
    /\ \E i, j, k, m, n \in 1 .. Len(devlog) :
         /\ i < j /\ j < k /\ k < m /\ m < n
         /\ devlog[i].cat = "demolish" /\ devlog[i].act.op = "key_hold"
         /\ devlog[j].cat = "demolish" /\ devlog[j].act.op = "key_click"
         /\ devlog[k].cat = "place" /\ devlog[k].act.op = "key_hold"
         /\ devlog[m].cat = "place" /\ devlog[m].act.op = "double_click"
         /\ devlog[n].cat = "upgrade"

Ledgers == <<placed_uids, completed_upgrade_keys, completed_demolish_uids>>

\* C5: a second execute_wave_phase call for the same (wave, phase), made on the
\* ledger the first one left, issues no device action and leaves the ledger and
\* the camera offset unchanged.
C5_SecondCallIdle ==
    phase_repeat =>
        /\ devlog = <<>>
        /\ Ledgers = ledger_before
        /\ camera_offset_y = cam_before

\* a repeated call for a phase in which a building was placed, a tower
\* demolished and an upgrade made
C5_Witness ==
    /\ phase_repeat
    /\ IsSome(map_meta)
    /\ \E k \in 1 .. Len(strategy_buildings) : DueNow(strategy_buildings[k])
    /\ \E k \in 1 .. Len(strategy_demolishes) : DueNow(strategy_demolishes[k])
    /\ \E k \in 1 .. Len(strategy_upgrades) : DueNow(strategy_upgrades[k])
    /\ camera_offset_y > 0

\* the pointer, key and button actions of the last call's placements (the
\* camera holds left out)
PlaceLog == SelectSeq(devlog, LAMBDA e : e.cat = "place" /\ e.act.op /= "key_hold")

\* the placement batch of the last call
PlaceBatch == ToPlace(strategy_buildings, ledger_before[1], CallWave, CallLate)

\* the position in the batch of the item whose double-click is PlaceLog[i]
BatchIndex(i) == Cardinality({ j \in 1 .. i : PlaceLog[j].act.op = "double_click" })

HotkeyOf(k) == get_trap_key(active_loadout, PlaceBatch[k].name)

\* C34: each placement issues the pointer move, then the selection hotkey, then
\* the double-click; the hotkey is pressed iff the item is the first of its batch
\* or its hotkey differs from the preceding item's; nothing is remembered from
\* an earlier batch.
C34_HotkeyOnChange ==
    (IsSome(phase_call) /\ IsSome(map_meta)) =>
        /\ BatchIndex(Len(PlaceLog)) = Len(PlaceBatch)
        /\ \A i \in 1 .. Len(PlaceLog) :
             LET e == PlaceLog[i]
             IN  /\ e.act.op \in {"move_to", "key_click", "double_click"}
                 /\ e.act.op = "move_to" =>
                      /\ i < Len(PlaceLog)
                      /\ PlaceLog[i + 1].act.op \in {"key_click", "double_click"}
                      /\ i > 1 => PlaceLog[i - 1].act.op = "double_click"
                 /\ e.act.op = "key_click" =>
                      /\ i > 1 /\ PlaceLog[i - 1].act.op = "move_to"
                      /\ i < Len(PlaceLog) /\ PlaceLog[i + 1].act.op = "double_click"
                 /\ e.act.op = "double_click" =>
                      LET k == BatchIndex(i)
                          pressed == PlaceLog[i - 1].act.op = "key_click"
                      IN  /\ i > 1
                          /\ e.item = PlaceBatch[k].uid
                          /\ pressed <=> (k = 1 \/ HotkeyOf(k) /= HotkeyOf(k - 1))
                          /\ pressed => PlaceLog[i - 1].act.key = HotkeyOf(k)

\* a batch of two placements with one hotkey: it is pressed for the first only
C34_Witness ==
    /\ IsSome(phase_call)
    /\ Len(PlaceBatch) = 2
    /\ HotkeyOf(1) = HotkeyOf(2)
    /\ Len(PlaceLog) = 5
    /\ PlaceLog[2].act.op = "key_click"
    /\ PlaceLog[4].act.op = "move_to"

\* C30: without map metadata execute_wave_phase issues no device action for a
\* placement or a demolish item and leaves the placed and demolished ledgers and
\* the camera offset unchanged, so the items due stay selectable; the upgrade
\* events due in the call are executed and recorded all the same.
C30_NoMetaUpgradesOnly ==
    (IsSome(phase_call) /\ ~IsSome(map_meta)) =>
        /\ \A i \in 1 .. Len(devlog) : devlog[i].cat = "upgrade"
        /\ placed_uids = ledger_before[1]
        /\ completed_demolish_uids = ledger_before[3]
        /\ camera_offset_y = cam_before
        /\ camera_offset_x = 0
        /\ \A k \in 1 .. Len(strategy_buildings) :
             DueNow(strategy_buildings[k]) => strategy_buildings[k].uid \notin placed_uids
        /\ \A k \in 1 .. Len(strategy_demolishes) :
             DueNow(strategy_demolishes[k]) =>
                 strategy_demolishes[k].uid \notin completed_demolish_uids
        /\ \A k \in 1 .. Len(strategy_upgrades) :
             (DueNow(strategy_upgrades[k])
                 /\ UpgradeKey(strategy_upgrades[k]) \notin ledger_before[2]) =>
                 /\ UpgradeKey(strategy_upgrades[k]) \in completed_upgrade_keys
                 /\ \E i \in 1 .. Len(devlog) :
                      /\ devlog[i].item = UpgradeKey(strategy_upgrades[k])
                      /\ devlog[i].act.op = "key_hold"

\* a call without map metadata in which a placement, a demolition and an
\* upgrade were due: only the upgrade was made
C30_Witness ==
    /\ IsSome(phase_call)
    /\ ~IsSome(map_meta)
    /\ \E k \in 1 .. Len(strategy_buildings) : DueNow(strategy_buildings[k])
    /\ \E k \in 1 .. Len(strategy_demolishes) : DueNow(strategy_demolishes[k])
    /\ Len(devlog) = 1
    /\ devlog[1].cat = "upgrade"
    /\ completed_upgrade_keys /= ledger_before[2]

(***************************************************************************)
(* Spec: TowerDefenseApp::run                                              *)
(***************************************************************************)
MaxWaitSecs == 1
MaxDelayK == 6

\* The text of a recognition sample is a String, a sequence of characters.
\* "bo" and "ci" are the two characters of the wave marker (U+6CE2, U+6B21),
\* "fw3" is the full-width digit three (U+FF13), "x" is any other character.
WaveMarker == <<"bo", "ci">>
AsciiDigits == <<"0", "1", "2", "3", "4", "5", "6", "7", "8", "9">>
IsAsciiDigit(c) == \E d \in 1 .. 10 : AsciiDigits[d] = c

\* \d of the regex crate is Unicode-aware: it also matches decimal digits that
\* are not ASCII, such as the full-width three
IsDigit(c) == IsAsciiDigit(c) \/ c = "fw3"

\* Regex <marker>(\d+), leftmost match: the index where it starts, 0 if there is none
RECURSIVE FindWave(_, _)
FindWave(text, i) ==
    IF i + 2 > Len(text) THEN 0
    ELSE IF text[i] = WaveMarker[1] /\ text[i + 1] = WaveMarker[2] /\ IsDigit(text[i + 2])
           THEN i
           ELSE FindWave(text, i + 1)

\* the capture group: the longest run of digits from index i on
RECURSIVE DigitRun(_, _)
DigitRun(text, i) ==
    IF i > Len(text) \/ ~IsDigit(text[i]) THEN <<>>
    ELSE <<text[i]>> \o DigitRun(text, i + 1)

I32_MAX == 2147483647

\* str::parse::<i32> of a non-empty run of digits: Err (here None) on a
\* character that is not an ASCII digit and on overflow, acc being the value of
\* the digits read so far
RECURSIVE ParseI32(_, _)
ParseI32(digits, acc) ==
    IF digits = <<>> THEN Some(acc)
    ELSE IF ~IsAsciiDigit(Head(digits)) THEN None
    ELSE LET d == (CHOOSE k \in 1 .. 10 : AsciiDigits[k] = Head(digits)) - 1
         IN  IF acc > (I32_MAX - d) \div 10 THEN None
             ELSE ParseI32(Tail(digits), acc * 10 + d)

\* mutant: the first run of digits counts, wave marker or not
RECURSIVE ParseWaveStatus_AnyDigits(_)
ParseWaveStatus_AnyDigits(text) ==
    IF text = <<>> THEN None
    ELSE IF IsDigit(Head(text)) THEN ParseI32(DigitRun(text, 1), 0)
    ELSE ParseWaveStatus_AnyDigits(Tail(text))

\* recognize_wave_status, from the text on: the Option<WaveStatus> it returns,
\* a WaveStatus being its current_wave
ParseWaveStatus(text) ==
    IF text = <<>> THEN None
    ELSE LET i == FindWave(text, 1)
         IN  IF i = 0 THEN None
             ELSE ParseI32(DigitRun(text, i + 2), 0)

\* texts without the pattern, and a count too large for an i32 or written in
\* full-width digits
NoisyTexts ==
    { <<>>, <<"x">>, WaveMarker, <<"bo", "1">>, <<"ci", "bo", "1">>,
      <<"bo", "x", "ci", "2">>, WaveMarker \o <<"fw3">>,
      WaveMarker \o <<"2", "1", "4", "7", "4", "8", "3", "6", "4", "8">> }

\* the texts nav.ocr_area can return: noise, the wave marker with a count, and
\* counts with leading zeros or inside other text
OcrTexts ==
    NoisyTexts
    \cup { WaveMarker \o FormatInt(n) : n \in Readings }
    \cup { <<"x">> \o WaveMarker \o <<"2", "x", "3">>,
           WaveMarker \o WaveMarker \o <<"0", "1">> }

\* mutant: the restoring tap is left out
RecognizeActs_NoRestore(use_tab) ==
    IF use_tab
      THEN << Act("key_down", "TAB", 0, 0, 0), Act("ocr", "", 0, 0, 0),
              Act("key_up", "", 0, 0, 0) >>
      ELSE << Act("ocr", "", 0, 0, 0) >>

\* the device actions of recognize_wave_status(rect, use_tab)
RecognizeActs(use_tab) ==
    IF use_tab
      THEN << Act("key_down", "TAB", 0, 0, 0), Act("ocr", "", 0, 0, 0),
              Act("key_up", "", 0, 0, 0), Act("key_down", "TAB", 0, 0, 0),
              Act("key_up", "", 0, 0, 0) >>
      ELSE << Act("ocr", "", 0, 0, 0) >>

\* select_loadout: the first four names that the trap table knows
RECURSIVE SelectLoadoutActs(_, _, _)
SelectLoadoutActs(names, lookup, n) ==
    IF names = <<>> \/ n = 0 THEN <<>>
    ELSE (IF Head(names) \in DOMAIN lookup
            THEN << Act("move_to", "", lookup[Head(names)][1], lookup[Head(names)][2], 500),
                    Act("click", "left", 0, 0, 0) >>
            ELSE <<>>)
         \o SelectLoadoutActs(Tail(names), lookup, n - 1)

\* the device actions of execute_prep_logic(loadout)
PrepActs(loadout, lookup) ==
    << Act("key_click", "n", 0, 0, 0), Act("move_to", "", 212, 294, 500),
       Act("click", "left", 0, 0, 0) >>
    \o SelectLoadoutActs(loadout, lookup, 4)
    \o << Act("key_click", "n", 0, 0, 0) >>

PhaseEvent(wave, late) == [ev |-> "phase", wave |-> wave, late |-> late]
AdvanceEvent == [ev |-> "advance", wave |-> 0, late |-> FALSE]

\* A configuration file as run finds it: None when fs::read_to_string or
\* serde_json::from_str fails, else Some(the parsed value).
\* load_map_terrain: a file that cannot be loaded leaves map_meta as it was
load_map_terrain(meta, file) == IF IsSome(file) THEN Some(Unwrap(file)) ELSE meta

\* load_strategy: the three lists are assigned only from a parsed file
load_strategy(strategy, file) == IF IsSome(file) THEN Unwrap(file) ELSE strategy

\* load_trap_config: every item of a parsed file is inserted under its name
load_trap_config(lookup, file) ==
    IF IsSome(file)
      THEN [n \in DOMAIN lookup \cup DOMAIN Unwrap(file) |->
              IF n \in DOMAIN Unwrap(file) THEN Unwrap(file)[n] ELSE lookup[n]]
      ELSE lookup

\* the terrain files a run may find
TerrainFiles == { None, Some(MapMeta(40, 0, 0, Px(1600))) }

\* the map metadata a run may hold after its loads
RunMetas == { load_map_terrain(None, f) : f \in TerrainFiles }

StrategyFiles ==
    { None,
      Some([buildings |-> << FirstBuilding, Building(2, NameB, 3, 25, 2, 2, 2, TRUE) >>,
       upgrades |-> << UpgradeEvent(NameA, 1, TRUE), UpgradeEvent(NameB, 3, FALSE) >>,
       demolishes |-> << Building(1, NameA, 1, 2, 1, 1, 2, FALSE) >>]),
      Some([buildings |-> << Building(3, NameB, 3, 25, 2, 2, 0, FALSE),
                        Building(4, NameA, 30, 12, 1, 1, 1, TRUE) >>,
       upgrades |-> << UpgradeEvent(NameB, 0, FALSE), UpgradeEvent(NameA, 2, FALSE) >>,
       demolishes |-> << Building(3, NameB, 3, 25, 2, 2, 0, TRUE),
                         Building(4, NameA, 30, 12, 1, 1, 3, TRUE) >>]) }

TrapFiles ==
    { None,
      Some([n \in {NameA, NameB} |-> IF n = NameA THEN <<300, 400>> ELSE <<360, 400>>]) }

\* the trap tables a run may hold after its loads
RunTrapTables == { load_trap_config(<<>>, f) : f \in TrapFiles }

Init ==
    /\ pc = "start"
    /\ now = 0
    /\ NewApp
    /\ NoHistory
    /\ NoNav
    /\ NoThreads
    /\ script = <<>>
    /\ NothingLoaded

\* run, up to the initial wait: the loadout, the three loads, the entry clicks
RunStart ==
    /\ pc = "start"
    /\ active_loadout' = <<NameA, NameB>>
    /\ \E terrain \in TerrainFiles, strategy \in StrategyFiles, traps \in TrapFiles :
         LET st == load_strategy([buildings |-> strategy_buildings,
                                  upgrades |-> strategy_upgrades,
                                  demolishes |-> strategy_demolishes], strategy)
         IN  /\ map_meta' = load_map_terrain(map_meta, terrain)
             /\ strategy_buildings' = st.buildings
             /\ strategy_upgrades' = st.upgrades
             /\ strategy_demolishes' = st.demolishes
             /\ trap_lookup' = load_trap_config(trap_lookup, traps)
             /\ load_ok' = <<IsSome(terrain), IsSome(strategy), IsSome(traps)>>
    /\ devlog' = devlog \o Tagged("enter", 0,
                        << Act("move_to", "", 1700, 950, 500), Act("click", "left", 0, 0, 0),
                           Act("move_to", "", 1110, 670, 500), Act("click", "left", 0, 0, 0) >>)
    /\ pc' = "wait"
    /\ UNCHANGED <<now, waveVars, feedVars, camVars, pixelVars, ledgerVars, phaseVars,
                   runVars, lockVars, navVars>>

\* mutant: a wave count of 0 ends the initial wait
BattleStarted_FromZero(status) == IsSome(status) /\ Unwrap(status) >= 0

\* if let Some(status) = .. { if status.current_wave > 0 { .. break } }
BattleStarted(status) == IsSome(status) /\ Unwrap(status) > 0

\* one turn of the initial wait loop: a sample without TAB, then either the
\* break or the one-second sleep
WaitPoll ==
    \E text \in OcrTexts : \E r \in {ParseWaveStatus(text)} :
        /\ pc = "wait"
        /\ ocr_text' = text
        /\ sample' = r
        /\ devlog' = Tagged("sample", 0, RecognizeActs(FALSE))
        /\ seen_start' = (seen_start \/ (r /= None /\ Unwrap(r) > 0))
        /\ IF BattleStarted(r)
             THEN /\ last_wave_change_time' = now
                  /\ pc' = "prep"
                  /\ now' = now
             ELSE /\ now < MaxWaitSecs
                  /\ now' = now + WAIT_SLEEP_SECS
                  /\ UNCHANGED <<last_wave_change_time, pc>>
        /\ UNCHANGED <<last_confirmed_wave, detected, accepted_now, confirmed, feedVars,
                       configVars, camVars, pixelVars, ledgerVars, phaseVars,
                       prep_runs, setup_runs, iter, lockVars, navVars>>

\* self.execute_prep_logic(loadout)
Prep ==
    /\ pc = "prep"
    /\ devlog' = Tagged("prep", 0, PrepActs(active_loadout, trap_lookup))
    /\ prep_runs' = prep_runs + 1
    /\ pc' = "setup"
    /\ UNCHANGED <<now, waveVars, feedVars, configVars, camVars, pixelVars, ledgerVars,
                   phaseVars, ocr_text, sample, seen_start, setup_runs, iter, lockVars, navVars>>

\* self.setup_view()
SetupView ==
    /\ pc = "setup"
    /\ devlog' = Tagged("setup_view", 0, SetupViewActs)
    /\ camera_offset_x' = 0
    /\ camera_offset_y' = 0
    /\ cam_before' = camera_offset_y
    /\ cam_target' = None
    /\ setup_runs' = setup_runs + 1
    /\ pc' = "poll"
    /\ UNCHANGED <<now, waveVars, feedVars, configVars, pixelVars, ledgerVars, phaseVars,
                   ocr_text, sample, seen_start, prep_runs, iter, lockVars, navVars>>

\* mutant: the phases run whatever the validation said
AfterValidate_Always(valid) == "early"

\* if self.validate_wave_transition(..) { .. }: where the loop body goes next
AfterValidate(valid) == IF valid THEN "early" ELSE "sleep"

\* the head of a turn of the battle loop: a sample with TAB and, when it
\* yields a wave count, the validation
Poll ==
    \E text \in OcrTexts : \E r \in {ParseWaveStatus(text)} :
        /\ pc = "poll"
        /\ ocr_text' = text
        /\ sample' = r
        /\ devlog' = Tagged("sample", 0, RecognizeActs(TRUE))
        /\ iter' = <<>>
        /\ IF IsSome(r)
             THEN /\ detected' = r
                  /\ validate_wave_transition(Unwrap(r))
                  /\ pc' = AfterValidate(accepted_now')
             ELSE /\ accepted_now' = FALSE
                  /\ pc' = "sleep"
                  /\ UNCHANGED <<last_confirmed_wave, last_wave_change_time, detected,
                                 confirmed>>
        /\ UNCHANGED <<now, feedVars, configVars, camVars, pixelVars, ledgerVars,
                       phaseVars, seen_start, prep_runs, setup_runs, lockVars, navVars>>

\* self.execute_wave_phase(current_wave, false)
Early ==
    /\ pc = "early"
    /\ execute_wave_phase(Unwrap(sample), FALSE)
    /\ iter' = Append(iter, PhaseEvent(Unwrap(sample), FALSE))
    /\ pc' = "advance"
    /\ UNCHANGED <<now, waveVars, feedVars, configVars, pixelVars, ocr_text, sample,
                   seen_start, prep_runs, setup_runs, lockVars, navVars>>

\* mutant: the late phase is skipped
AfterAdvance_SkipLate == "sleep"

AfterAdvance == "late"

\* d.key_click('g'), then the one-second sleep
Advance ==
    /\ pc = "advance"
    /\ now + 1 <= MaxTime
    /\ devlog' = Tagged("advance", 0, << Act("key_click", "g", 0, 0, 0) >>)
    /\ iter' = Append(iter, AdvanceEvent)
    /\ now' = now + 1
    /\ pc' = AfterAdvance
    /\ UNCHANGED <<waveVars, feedVars, configVars, camVars, pixelVars, ledgerVars,
                   phaseVars, ocr_text, sample, seen_start, prep_runs, setup_runs,
                   lockVars, navVars>>

\* self.execute_wave_phase(current_wave, true)
Late ==
    /\ pc = "late"
    /\ execute_wave_phase(Unwrap(sample), TRUE)
    /\ iter' = Append(iter, PhaseEvent(Unwrap(sample), TRUE))
    /\ pc' = "sleep"
    /\ UNCHANGED <<now, waveVars, feedVars, configVars, pixelVars, ocr_text, sample,
                   seen_start, prep_runs, setup_runs, lockVars, navVars>>

\* thread::sleep(10 s), and whatever longer the turn took
Sleep ==
    \E k \in 1 .. MaxDelayK :
        /\ pc = "sleep"
        /\ now + POLL_SLEEP_SECS * k <= MaxTime
        /\ now' = now + POLL_SLEEP_SECS * k
        /\ pc' = "poll"
        /\ UNCHANGED <<waveVars, feedVars, configVars, camVars, devlog, pixelVars,
                       ledgerVars, phaseVars, runVars, lockVars, navVars>>

Next ==
    \/ RunStart
    \/ WaitPoll
    \/ Prep
    \/ SetupView
    \/ Poll
    \/ Early
    \/ Advance
    \/ Late
    \/ Sleep

Spec == Init /\ [][Next]_vars

BattlePcs == {"poll", "early", "advance", "late", "sleep"}

\* what a turn of the battle loop has to run, given what its poll validated
TurnEvents ==
    IF accepted_now
      THEN << PhaseEvent(last_confirmed_wave, FALSE), AdvanceEvent,
              PhaseEvent(last_confirmed_wave, TRUE) >>
      ELSE <<>>

\* C6: a turn of the battle loop whose poll validated the transition to wave w
\* runs phase early for w, then issues exactly one phase-advance keypress, then
\* runs phase late for w, in that order; a turn whose poll validated nothing
\* runs no phase and presses no key but the sampler's.
C6_TurnOrder ==
    /\ pc \in {"sleep", "poll"} => iter = TurnEvents
    /\ pc = "early" => (accepted_now /\ iter = <<>>)
    /\ pc = "advance" =>
         /\ accepted_now
         /\ iter = SubSeq(TurnEvents, 1, 1)
         /\ phase_call = Some(<<last_confirmed_wave, FALSE>>)
    /\ pc = "late" =>
         /\ accepted_now
         /\ iter = SubSeq(TurnEvents, 1, 2)
         /\ devlog = << Entry("advance", 0, Act("key_click", "g", 0, 0, 0)) >>
    /\ (pc = "sleep" /\ accepted_now) =>
         phase_call = Some(<<last_confirmed_wave, TRUE>>)
    /\ (pc = "sleep" /\ ~accepted_now) =>
         \A i \in 1 .. Len(devlog) : devlog[i].cat = "sample"
    /\ pc /= "late" => \A i \in 1 .. Len(devlog) : devlog[i].act.key /= "g"

\* the end of the turn that confirmed wave 2, its late phase having placed a
\* building
C6_Witness ==
    /\ pc = "sleep"
    /\ accepted_now
    /\ last_confirmed_wave = 2
    /\ Len(iter) = 3
    /\ \E i \in 1 .. Len(devlog) : devlog[i].cat = "place"

\* C7: the one-time preparation (execute_prep_logic, then setup_view) runs
\* exactly once, only after the initial wait saw a wave count > 0, and before
\* any wave phase; a sample that yields nothing or a count <= 0 keeps the run in
\* the initial wait.
C7_PrepOnce ==
    /\ [](/\ prep_runs <= 1
          /\ setup_runs <= 1
          /\ prep_runs = 1 => seen_start
          /\ setup_runs = 1 => prep_runs = 1
          /\ IsSome(phase_call) => (prep_runs = 1 /\ setup_runs = 1)
          /\ pc \in BattlePcs => (prep_runs = 1 /\ setup_runs = 1)
          /\ ~seen_start => pc \in {"start", "wait"})
    /\ [][ (pc = "wait" /\ (sample' = None \/ Unwrap(sample') <= 0)) => pc' = "wait" ]_vars

\* the first poll of the battle loop, reached through a wait that slept on a
\* miss, one preparation and one camera alignment
C7_Witness ==
    /\ pc = "poll"
    /\ now = WAIT_SLEEP_SECS
    /\ seen_start
    /\ prep_runs = 1
    /\ setup_runs = 1
    /\ devlog = Tagged("setup_view", 0, SetupViewActs)

\* the text holds the wave marker followed at once by a decimal digit
HasWavePattern(text) ==
    \E i \in 1 .. Len(text) - 2 :
        /\ text[i] = "bo"
        /\ text[i + 1] = "ci"
        /\ text[i + 2] \in {"0", "1", "2", "3", "4", "5", "6", "7", "8", "9", "fw3"}

RecognitionMiss(text) == text = <<>> \/ ~HasWavePattern(text)

\* C12: a recognition sample whose text is empty or lacks the pattern "wave
\* marker, then digits" yields no value; on such a sample the run loop leaves
\* last_confirmed_wave, the timer, the ledger and the camera offset unchanged,
\* issues no action but the sampler's, and goes on to the sleep that precedes
\* the next sample (in the initial wait, stays in the wait).
C12_RecognitionMiss ==
    /\ [](RecognitionMiss(ocr_text) => sample = None)
    /\ [][ (pc \in {"wait", "poll"} /\ RecognitionMiss(ocr_text')) =>
             /\ sample' = None
             /\ UNCHANGED <<last_confirmed_wave, last_wave_change_time, ledgerVars,
                            camera_offset_x, camera_offset_y>>
             /\ \A i \in 1 .. Len(devlog') : devlog'[i].cat = "sample"
             /\ pc' = IF pc = "poll" THEN "sleep" ELSE "wait" ]_vars
    /\ [][ pc = "sleep" => pc' = "poll" ]_vars

\* a battle-loop sample with the marker broken by another character, taken
\* after wave 1 was confirmed and its building placed: nothing moved
C12_Witness ==
    /\ pc = "sleep"
    /\ ocr_text = <<"bo", "x", "ci", "2">>
    /\ sample = None
    /\ ~accepted_now
    /\ last_confirmed_wave = 1
    /\ last_wave_change_time < now
    /\ placed_uids /= {}

\* what a sequence of logged actions does, as <<op, key>> pairs
RECURSIVE OpsOf(_)
OpsOf(log) ==
    IF log = <<>> THEN <<>>
    ELSE << <<Head(log).act.op, Head(log).act.key>> >> \o OpsOf(Tail(log))

\* the keys held down after a sequence of logged actions, from the set held
RECURSIVE HeldAfter(_, _)
HeldAfter(log, held) ==
    IF log = <<>> THEN held
    ELSE HeldAfter(Tail(log),
                   CASE Head(log).act.op = "key_down" -> held \cup {Head(log).act.key}
                     [] Head(log).act.op = "key_up" -> {}
                     [] OTHER -> held)

\* C13: a sample taken with the reveal key (use_tab = true, the battle loop)
\* issues exactly reveal-key down, one recognition sample, reveal-key up,
\* reveal-key down, reveal-key up, whatever the sample yields; a sample taken
\* without it (the initial wait) issues the recognition sample and no key
\* event; in both cases no key is held when the sample returns.
C13_RevealKeySequence ==
    /\ [][ pc = "poll" =>
             /\ OpsOf(devlog') = << <<"key_down", "TAB">>, <<"ocr", "">>, <<"key_up", "">>,
                                    <<"key_down", "TAB">>, <<"key_up", "">> >>
             /\ HeldAfter(devlog', {}) = {} ]_vars
    /\ [][ pc = "wait" =>
             /\ OpsOf(devlog') = << <<"ocr", "">> >>
             /\ HeldAfter(devlog', {}) = {} ]_vars

\* a battle-loop sample that yielded nothing: the five events were issued
C13_Witness ==
    /\ pc = "sleep"
    /\ sample = None
    /\ ocr_text = WaveMarker
    /\ Len(devlog) = 5
    /\ devlog[1].act = Act("key_down", "TAB", 0, 0, 0)
    /\ devlog[5].act = Act("key_up", "", 0, 0, 0)

\* C16: a configuration file (terrain, strategy, traps) that cannot be read or
\* parsed is fatal at startup: the run then neither goes on to the initial
\* wave wait nor issues any device action.
C16_ConfigFatal ==
    (load_ok /= <<>> /\ \E i \in 1 .. 3 : ~load_ok[i]) =>
        /\ pc = "start"
        /\ devlog = <<>>

\* C29: the horizontal camera offset is 0 after setup_view and stays 0 for the
\* rest of the run: no ensure_visible call and no wave-phase execution changes
\* it, whatever the x coordinates of the targets.
C29_OffsetXStaysZero ==
    /\ camera_offset_x = 0
    /\ [][camera_offset_x' = camera_offset_x]_vars

\* a wave phase after setup_view that moved the pointer to an item in the right
\* half of the screen
C29_Witness ==
    /\ setup_runs >= 1
    /\ IsSome(phase_call)
    /\ \E i \in 1 .. Len(devlog) :
        /\ devlog[i].cat = "place"
        /\ devlog[i].act.op = "move_to"
        /\ devlog[i].act.x > (SAFE_X1 + SAFE_X2) \div 2

\* the battle loop holds a reading that is ahead of the next wave
ReadingAhead(status, last) == IsSome(status) /\ Unwrap(status) > last + 1

ReadingTooHigh == pc \in BattlePcs /\ ReadingAhead(sample, last_confirmed_wave)

\* C31: a turn of the battle loop whose reading of the wave counter is greater
\* than last_confirmed_wave + 1 confirms no transition, runs no wave phase and
\* presses no phase-advance key, and leaves last_confirmed_wave as it was; so
\* while every reading stays that high nothing is confirmed or issued again.
C31_StuckOnSkippedWave ==
    [][ (pc \in {"poll", "sleep"} /\ ReadingAhead(sample', last_confirmed_wave)) =>
          /\ ReadingTooHigh'
          /\ last_confirmed_wave' = last_confirmed_wave
          /\ confirmed' = confirmed
          /\ ~accepted_now'
          /\ pc' \in {"poll", "sleep"}
          /\ ledgerVars' = ledgerVars
          /\ phase_call' = phase_call
          /\ \A i \in 1 .. Len(devlog') : devlog'[i].cat = "sample" ]_vars

\* wave 1 was confirmed, the cool-down is over and the counter reads 3
C31_Witness ==
    /\ ReadingTooHigh
    /\ pc = "sleep"
    /\ last_confirmed_wave = 1
    /\ Unwrap(sample) = 3
    /\ Elapsed(now, last_wave_change_time) >= MIN_WAVE_INTERVAL_SECS

\* the strategy items scheduled for no wave of a run
Unscheduled(items) == { i \in 1 .. Len(items) : items[i].wave_num <= 0 }

Logged(cat, item) == \E i \in 1 .. Len(devlog) : devlog[i].cat = cat /\ devlog[i].item = item

\* C32: the run loop calls execute_wave_phase only for waves w >= 1, for
\* consecutive waves in increasing order, early then late, each once; strategy
\* items with wave_num <= 0 are never executed during a run.
C32_WavesFromOne ==
    /\ [](/\ Len(confirmed) = last_confirmed_wave
          /\ \A i \in 1 .. Len(confirmed) : confirmed[i] = i
          /\ IsSome(phase_call) =>
                /\ Unwrap(phase_call)[1] >= 1
                /\ Unwrap(phase_call)[1] =
                      IF pc = "early" THEN last_confirmed_wave - 1 ELSE last_confirmed_wave
          /\ ~phase_repeat
          /\ \A i \in Unscheduled(strategy_buildings) :
                /\ strategy_buildings[i].uid \notin placed_uids
                /\ ~Logged("place", strategy_buildings[i].uid)
          /\ \A i \in Unscheduled(strategy_demolishes) :
                /\ strategy_demolishes[i].uid \notin completed_demolish_uids
                /\ ~Logged("demolish", strategy_demolishes[i].uid)
          /\ \A i \in Unscheduled(strategy_upgrades) :
                /\ UpgradeKey(strategy_upgrades[i]) \notin completed_upgrade_keys
                /\ ~Logged("upgrade", UpgradeKey(strategy_upgrades[i])))
    /\ [][ phase_call' /= phase_call =>
             \/ /\ phase_call' = Some(<<last_confirmed_wave', FALSE>>)
                /\ phase_call \in {None, Some(<<last_confirmed_wave' - 1, TRUE>>)}
                /\ phase_call = None => last_confirmed_wave' = 1
             \/ /\ phase_call' = Some(<<last_confirmed_wave', TRUE>>)
                /\ phase_call = Some(<<last_confirmed_wave', FALSE>>) ]_vars

\* both phases of waves 1 and 2 have run on a strategy that has a building, an
\* upgrade and a demolition left at wave 0
C32_Witness ==
    /\ phase_call = Some(<<2, TRUE>>)
    /\ confirmed = <<1, 2>>
    /\ Unscheduled(strategy_buildings) /= {}
    /\ Unscheduled(strategy_demolishes) /= {}
    /\ Unscheduled(strategy_upgrades) /= {}
    /\ placed_uids /= {}

\* the item is scheduled for a wave the run has confirmed
Reached(e) == e.wave_num >= 1 /\ e.wave_num <= last_confirmed_wave

\* C36: in a run the three ledger sets only grow; what a step adds to a set is
\* logged under that set's category in the same step; every placed id is the uid
\* of a strategy building, every demolished id the uid of a strategy demolish
\* event, every upgrade key the key of a strategy upgrade, and each recorded item
\* is scheduled for a wave <= last_confirmed_wave.
C36_LedgerGrows ==
    /\ [](/\ \A id \in placed_uids :
                \E k \in 1 .. Len(strategy_buildings) :
                    strategy_buildings[k].uid = id /\ Reached(strategy_buildings[k])
          /\ \A id \in completed_demolish_uids :
                \E k \in 1 .. Len(strategy_demolishes) :
                    strategy_demolishes[k].uid = id /\ Reached(strategy_demolishes[k])
          /\ \A key \in completed_upgrade_keys :
                \E k \in 1 .. Len(strategy_upgrades) :
                    /\ UpgradeKey(strategy_upgrades[k]) = key
                    /\ Reached(strategy_upgrades[k]))
    /\ [][ /\ placed_uids \subseteq placed_uids'
           /\ completed_upgrade_keys \subseteq completed_upgrade_keys'
           /\ completed_demolish_uids \subseteq completed_demolish_uids'
           /\ \A id \in placed_uids' \ placed_uids :
                \E i \in 1 .. Len(devlog') :
                    devlog'[i].cat = "place" /\ devlog'[i].item = id
           /\ \A id \in completed_demolish_uids' \ completed_demolish_uids :
                \E i \in 1 .. Len(devlog') :
                    devlog'[i].cat = "demolish" /\ devlog'[i].item = id
           /\ \A key \in completed_upgrade_keys' \ completed_upgrade_keys :
                \E i \in 1 .. Len(devlog') :
                    devlog'[i].cat = "upgrade" /\ devlog'[i].item = key ]_vars

\* wave 2 is confirmed and each ledger holds something
C36_Witness ==
    /\ last_confirmed_wave = 2
    /\ placed_uids = {1, 2}
    /\ completed_demolish_uids = {1}
    /\ completed_upgrade_keys /= {}
    /\ pc = "sleep"

(***************************************************************************)
(* SpecCam: ensure_target_in_safe_zone and setup_view called in any order  *)
(***************************************************************************)
MaxTargetK == 30

\* targets on a 40-pixel grid and half a pixel either side of it, and two
\* targets whose centred offset is 2 pixels from either end of a tall map's range
TargetYs ==
    { Px(40 * k) + j : k \in 0 .. MaxTargetK, j \in {-1, 0, 1} }
        \cup { Px(542), Px(658) }

\* targets left of, inside and right of the screen
TargetXs == { Px(40), Px(960), Px(1900) }

\* map bottoms: shorter than the screen, 3 pixels taller, and taller maps
Bottoms == { Px(1000), Px(1083), Px(1200), Px(1600) }

CamMetas == {None} \cup { Some(MapMeta(40, 0, 0, b)) : b \in Bottoms }

InitCam ==
    /\ pc = "camera"
    /\ now = 0
    /\ NewApp
    /\ NoHistory
    /\ NoNav
    /\ NoThreads
    /\ script = <<>>
    /\ map_meta \in CamMetas
    /\ NoStrategy

CamEnsure ==
    \E ty \in TargetYs, tx \in TargetXs :
        LET r == ensure_target_in_safe_zone(map_meta, camera_offset_y, ty)
        IN  /\ pc = "camera"
            /\ cam_before' = camera_offset_y
            /\ cam_target' = Some(ty)
            /\ camera_offset_y' = r.off
            /\ devlog' = Tagged("camera", 0, r.holds)
            /\ camera_offset_x' = EnsureOffsetX(camera_offset_x, tx)
            /\ UNCHANGED <<pc, now, waveVars, feedVars, configVars,
                           pixelVars, ledgerVars, phaseVars, runVars, lockVars, navVars>>

CamSetupView ==
    /\ pc = "camera"
    /\ cam_before' = camera_offset_y
    /\ cam_target' = None
    /\ camera_offset_x' = 0
    /\ camera_offset_y' = 0
    /\ devlog' = Tagged("setup_view", 0, SetupViewActs)
    /\ UNCHANGED <<pc, now, waveVars, feedVars, configVars, pixelVars, ledgerVars,
                   phaseVars, runVars, lockVars, navVars>>

NextCam == CamEnsure \/ CamSetupView

SpecCam == InitCam /\ [][NextCam]_vars

Bottom == Unwrap(map_meta).bottom

\* C8: in every reachable state the vertical camera offset lies in
\* [0, max_offset_y], max_offset_y = max(0, map.bottom - viewport_height).
C8_OffsetInRange ==
    /\ IsSome(map_meta) =>
         /\ 0 <= camera_offset_y
         /\ camera_offset_y <= Max(0, Bottom - Px(SCREEN_HEIGHT))
    /\ ~IsSome(map_meta) => camera_offset_y = 0

\* a centering move from a scrolled camera that the lower clamp stopped at 0
C8_Witness ==
    /\ IsSome(map_meta)
    /\ IsSome(cam_target)
    /\ cam_before > 0
    /\ camera_offset_y = 0
    /\ Unwrap(cam_target) - cam_before < Px(SAFE_Y1)
    /\ Unwrap(cam_target) < SafeCenterY

InBottomZone ==
    /\ IsSome(map_meta)
    /\ IsSome(cam_target)
    /\ Unwrap(cam_target) > Bottom - (Px(SCREEN_HEIGHT) - Px(SAFE_Y1))

\* C9 as stated: after one ensure call for a target in the bottom zone the
\* offset is exactly max_offset_y, whatever the starting offset.
C9_Original ==
    InBottomZone => camera_offset_y = MaxOffsetY(Bottom)

\* C9 as amended: after one ensure call for a target in the bottom zone that was
\* outside the safe zone's vertical bounds when the call began, and with the
\* camera 5 pixels or more away from max_offset_y, the offset is exactly
\* max_offset_y; in the other bottom-zone cases the offset is unchanged.
C9_BottomZoneSnap ==
    InBottomZone =>
        LET rel_y == Unwrap(cam_target) - cam_before
            outside == rel_y < Px(SAFE_Y1) \/ rel_y > Px(SAFE_Y2)
            far == Abs(Max(0, Bottom - Px(SCREEN_HEIGHT)) - cam_before) >= Px(MIN_MOVE)
        IN  /\ (outside /\ far) => camera_offset_y = Max(0, Bottom - Px(SCREEN_HEIGHT))
            /\ ~(outside /\ far) => camera_offset_y = cam_before

\* the spec's example: bottom 1200, offset 0, target 1000 gives offset 120
C9_Witness ==
    /\ InBottomZone
    /\ Bottom = Px(1200)
    /\ cam_before = 0
    /\ cam_target = Some(Px(1000))
    /\ camera_offset_y = Px(120)

\* the last step was a call of ensure_target_in_safe_zone with map metadata
EnsureCalled == IsSome(map_meta) /\ IsSome(cam_target)

\* rel_y when the last ensure call began
RelYBefore == Unwrap(cam_target) - cam_before

\* rel_y lies within [safe_zone_top, safe_zone_bottom], bounds included
WithinSafeBounds(rel_y) == Px(SAFE_Y1) <= rel_y /\ rel_y <= Px(SAFE_Y2)

\* the holds the last step issued
CameraHolds == SelectSeq(devlog, LAMBDA e : e.cat = "camera" /\ e.act.op = "key_hold")

\* C25: when target_y - offset_y already lies within the safe zone's vertical
\* bounds, ends included, ensure_visible issues no device action and leaves
\* offset_y unchanged, also for a target in the bottom zone.
C25_InBandNoOp ==
    (IsSome(cam_target) /\ WithinSafeBounds(RelYBefore)) =>
        /\ devlog = <<>>
        /\ camera_offset_y = cam_before

\* a bottom-zone target inside the safe zone, with the camera scrolled but more
\* than 5 pixels short of max_offset_y
C25_Witness ==
    /\ InBottomZone
    /\ WithinSafeBounds(RelYBefore)
    /\ cam_before > 0
    /\ cam_before < MaxOffsetY(Bottom) - Px(MIN_MOVE)
    /\ devlog = <<>>
    /\ camera_offset_y = cam_before

\* the last ensure call fell under the centering policy
Centering == EnsureCalled /\ ~WithinSafeBounds(RelYBefore) /\ ~InBottomZone

\* clamp(target_y - safe_zone_vertical_midpoint, 0, max_offset_y)
Commanded ==
    Clamp(Unwrap(cam_target) - (Px(SAFE_Y1) + Px(SAFE_Y2)) \div 2, 0,
          Max(0, Bottom - Px(SCREEN_HEIGHT)))

\* one hold, forward for a positive delta and reverse for a negative one, of
\* |delta| / pixels-per-second, and the offset set to the commanded one
OneHoldToCommanded ==
    LET delta == Commanded - cam_before
    IN  /\ Len(devlog) = 1
        /\ Len(CameraHolds) = 1
        /\ delta > 0 => CameraHolds[1].act.key = "s"
        /\ delta < 0 => CameraHolds[1].act.key = "w"
        /\ CameraHolds[1].act.ms = (Abs(delta) * 1000) \div Px(MOVE_SPEED)
        /\ camera_offset_y = Commanded

\* C26 as stated: under the centering policy ensure_visible issues one
\* directional hold towards clamp(target_y - midpoint, 0, max_offset_y) and sets
\* offset_y to exactly that offset.
C26_Original == Centering => OneHoldToCommanded

\* C26 as amended: under the centering policy, when the delta to the commanded
\* offset clamp(target_y - midpoint, 0, max_offset_y) is 5 pixels or more,
\* ensure_visible issues one directional hold, forward for a positive delta and
\* reverse for a negative one, of |delta| / pixels-per-second, and sets offset_y
\* to exactly the commanded offset; when the delta is below 5 pixels it issues
\* no hold and leaves offset_y unchanged.
C26_CenteringHold ==
    Centering =>
        IF Abs(Commanded - cam_before) >= Px(MIN_MOVE)
        THEN OneHoldToCommanded
        ELSE devlog = <<>> /\ camera_offset_y = cam_before

\* a reverse hold from a scrolled camera to a commanded offset inside the range
C26_Witness ==
    /\ Centering
    /\ Commanded > 0
    /\ Commanded < cam_before
    /\ Len(CameraHolds) = 1
    /\ CameraHolds[1].act.key = "w"
    /\ camera_offset_y = Commanded

\* C27: every call of ensure_visible issues at most one directional hold, never
\* for a delta below 5 pixels; after a hold the target is inside the safe zone,
\* or the delta that remains is below 5 pixels, or the target is in the bottom
\* zone.
C27_AtMostOneHold ==
    EnsureCalled =>
        /\ Len(CameraHolds) <= 1
        /\ Len(CameraHolds) = Len(devlog)
        /\ Len(CameraHolds) = 1 =>
            /\ Abs(camera_offset_y - cam_before) >= Px(MIN_MOVE)
            /\ CameraHolds[1].act.ms >= (Px(MIN_MOVE) * 1000) \div Px(MOVE_SPEED)
            /\ \/ WithinSafeBounds(Unwrap(cam_target) - camera_offset_y)
               \/ InBottomZone
               \/ Abs(Commanded - camera_offset_y) < Px(MIN_MOVE)

\* a centering hold that the lower clamp stopped short of the safe zone: the
\* call ended on the delta that remains, which is 0
C27_Witness ==
    /\ Centering
    /\ Len(CameraHolds) = 1
    /\ camera_offset_y = 0
    /\ ~WithinSafeBounds(Unwrap(cam_target) - camera_offset_y)

(***************************************************************************)
(* SpecPixel: get_absolute_map_pixel applied to footprints of the grid     *)
(***************************************************************************)
MaxGrid == 3
MaxExtent == 3

GridPixelSizes == {10, 15, 40}
PixelOffsets == {0, Px(100) + 1, -Px(20)}
PixelMetas ==
    {None} \cup { Some(MapMeta(g, ox, oy, Px(1200))) :
                    g \in GridPixelSizes, ox \in PixelOffsets, oy \in PixelOffsets }

InitPixel ==
    /\ pc = "pixel"
    /\ now = 0
    /\ NewApp
    /\ NoHistory
    /\ NoNav
    /\ NoThreads
    /\ script = <<>>
    /\ map_meta \in PixelMetas
    /\ NoStrategy

ToPixel ==
    \E gx \in 0 .. MaxGrid, gy \in 0 .. MaxGrid, w \in 0 .. MaxExtent, h \in 0 .. MaxExtent :
        /\ pc = "pixel"
        /\ pixel_args' = <<gx, gy, w, h>>
        /\ pixel' = get_absolute_map_pixel(map_meta, gx, gy, w, h)
        /\ UNCHANGED <<pc, now, waveVars, feedVars, configVars, camVars, devlog,
                       ledgerVars, phaseVars, runVars, lockVars, navVars>>

NextPixel == ToPixel

SpecPixel == InitPixel /\ [][NextPixel]_vars

\* C10: with map metadata loaded, the pixel returned for a footprint is its
\* centroid, the midpoint of its corners offset + grid * cell_size and
\* offset + (grid + extent) * cell_size on each axis (in half pixels: twice the
\* result is the sum of the two corners); cell size 10, offset (0,0), grid
\* (2,3), size (2,2) gives (30, 40).
C10_Centroid ==
    (IsSome(map_meta) /\ pixel_args /= <<>>) =>
        LET m == Unwrap(map_meta)
            gx == pixel_args[1]
            gy == pixel_args[2]
            w == pixel_args[3]
            h == pixel_args[4]
            cell == Px(m.grid_pixel_size)
        IN  /\ IsSome(pixel)
            /\ 2 * Unwrap(pixel)[1] =
                 (m.offset_x + gx * cell) + (m.offset_x + (gx + w) * cell)
            /\ 2 * Unwrap(pixel)[2] =
                 (m.offset_y + gy * cell) + (m.offset_y + (gy + h) * cell)
            /\ (m.grid_pixel_size = 10 /\ m.offset_x = 0 /\ m.offset_y = 0
                  /\ pixel_args = <<2, 3, 2, 2>>) => pixel = Some(<<Px(30), Px(40)>>)

\* the spec's example
C10_Witness ==
    /\ IsSome(map_meta)
    /\ Unwrap(map_meta).grid_pixel_size = 10
    /\ Unwrap(map_meta).offset_x = 0
    /\ Unwrap(map_meta).offset_y = 0
    /\ pixel_args = <<2, 3, 2, 2>>
    /\ pixel = Some(<<Px(30), Px(40)>>)

(***************************************************************************)
(* SpecWave: the wave monitor fed arbitrary readings at arbitrary times    *)
(***************************************************************************)
InitWave ==
    /\ pc = "monitor"
    /\ now = 0
    /\ NewApp
    /\ NoHistory
    /\ NoNav
    /\ NoThreads
    /\ script = <<>>
    /\ NothingLoaded

\* a second of wall-clock time passes
Tick ==
    /\ now < MaxTime
    /\ now' = now + 1
    /\ UNCHANGED <<pc, waveVars, feedVars, configVars, camVars, devlog, pixelVars,
                   ledgerVars, phaseVars, runVars, lockVars, navVars>>

Feed ==
    \E d \in Readings :
        /\ pc = "monitor"
        /\ detected' = Some(d)
        /\ validate_wave_transition(d)
        /\ UNCHANGED <<pc, now, feedVars, configVars, camVars, devlog, pixelVars,
                       ledgerVars, phaseVars, runVars, lockVars, navVars>>

NextWave == Tick \/ Feed

SpecWave == InitWave /\ [][NextWave]_vars

\* C1: a validate call accepts iff the reading is last_confirmed_wave + 1 and
\* (at least the minimum interval has elapsed since the last confirmation, or
\* last_confirmed_wave is 0); an accepted call stores the reading and resets the
\* timer to now, a rejected call leaves both unchanged.
C1_ValidateContract ==
    [][ (now' = now /\ IsSome(detected')) =>
          LET d == Unwrap(detected')
              ok == /\ d = last_confirmed_wave + 1
                    /\ \/ now - last_wave_change_time >= MIN_WAVE_INTERVAL_SECS
                       \/ last_confirmed_wave = 0
          IN  /\ accepted_now' = ok
              /\ ok => /\ last_confirmed_wave' = d
                       /\ last_wave_change_time' = now
              /\ ~ok => UNCHANGED <<last_confirmed_wave, last_wave_change_time>>
      ]_vars

\* a later wave accepted once the interval has elapsed, with the timer reset
C1_Witness ==
    /\ accepted_now
    /\ detected = Some(2)
    /\ last_confirmed_wave = 2
    /\ last_wave_change_time = now
    /\ now >= MIN_WAVE_INTERVAL_SECS

\* C3: last_confirmed_wave starts at 0, never decreases, and changes only by
\* exactly +1, on an accepted transition; the confirmed waves are 1,2,3,...
\* with no gap and no repeat.
C3_MonotoneByOne ==
    /\ last_confirmed_wave = 0
    /\ [][ \/ last_confirmed_wave' = last_confirmed_wave
           \/ /\ last_confirmed_wave' = last_confirmed_wave + 1
              /\ accepted_now' ]_vars
    /\ [](confirmed = [i \in 1 .. last_confirmed_wave |-> i])

C3_Witness ==
    /\ last_confirmed_wave = 3
    /\ confirmed = <<1, 2, 3>>

(***************************************************************************)
(* SpecFeed: a fixed list of raw readings fed in order, any time apart     *)
(***************************************************************************)
FeedScripts == { <<1, 1, 1, 2, 2, 3>>, <<1, 5>>, <<1, 2, 1, 3>> }

InitFeed ==
    /\ pc = "feed"
    /\ now = 0
    /\ NewApp
    /\ NoHistory
    /\ NoNav
    /\ NoThreads
    /\ script \in FeedScripts
    /\ NothingLoaded

FeedNext ==
    /\ pc = "feed"
    /\ nfed < Len(script)
    /\ LET d == script[nfed + 1]
       IN  /\ detected' = Some(d)
           /\ in_time' = (in_time /\
                 (d = last_confirmed_wave + 1 =>
                    \/ now - last_wave_change_time >= MIN_WAVE_INTERVAL_SECS
                    \/ last_confirmed_wave = 0))
           /\ validate_wave_transition(d)
    /\ nfed' = nfed + 1
    /\ UNCHANGED <<pc, now, script, configVars, camVars, devlog, pixelVars,
                   ledgerVars, phaseVars, runVars, lockVars, navVars>>

TickFeed ==
    /\ pc = "feed"
    /\ Tick

NextFeed == TickFeed \/ FeedNext

SpecFeed == InitFeed /\ [][NextFeed]_vars

FeedDone(s) == script = s /\ nfed = Len(s)

\* C2 as stated, under the minimum interval the code has (the literal 60 s;
\* there is no min_interval to set to 0): the raw readings [1,1,1,2,2,3] yield
\* exactly [1,2,3], however closely they follow each other.
C2_Original ==
    FeedDone(<<1, 1, 1, 2, 2, 3>>) => confirmed = <<1, 2, 3>>

\* C2 as amended: the minimum interval is the fixed 60 s.  The readings
\* [1,1,1,2,2,3] yield a prefix of [1,2,3] beginning with 1, every reading equal
\* to the wave already confirmed is rejected, and the result is exactly [1,2,3]
\* when no reading last+1 arrived less than 60 s after the last confirmation;
\* a 5 fed after confirming 1 is rejected.
C2_FeedSequence ==
    /\ script = <<1, 1, 1, 2, 2, 3>> =>
          /\ confirmed \in { <<>>, <<1>>, <<1, 2>>, <<1, 2, 3>> }
          /\ nfed >= 1 => Len(confirmed) >= 1
          /\ nfed \in {2, 3} => (~accepted_now /\ confirmed = <<1>>)
          /\ (nfed = 6 /\ in_time) => confirmed = <<1, 2, 3>>
    /\ FeedDone(<<1, 5>>) => (~accepted_now /\ confirmed = <<1>>)

\* the whole list fed in time and [1,2,3] confirmed
C2_Witness ==
    /\ FeedDone(<<1, 1, 1, 2, 2, 3>>)
    /\ in_time
    /\ confirmed = <<1, 2, 3>>

(***************************************************************************)
(* SpecPoint: one demolition or one placement at a time, at any footprint  *)
(* of the grid, from whatever camera offset the earlier ones left          *)
(***************************************************************************)
MaxPointK == 4

\* grid coordinates up to and beyond the right and bottom edges of the screen
PointGrids == { 12 * k : k \in 0 .. MaxPointK }
PointExtents == { <<1, 1>>, <<2, 3>> }
PointOffsets == { 0, -Px(300), Px(250) + 1 }
PointMetas ==
    {None} \cup { Some(MapMeta(40, ox, oy, b)) :
                    ox \in PointOffsets, oy \in PointOffsets, b \in {Px(1000), Px(1600)} }

InitPoint ==
    /\ pc = "point"
    /\ now = 0
    /\ NewApp
    /\ NoHistory
    /\ NoNav
    /\ NoThreads
    /\ script = <<>>
    /\ map_meta \in PointMetas
    /\ strategy_buildings = <<>>
    /\ strategy_upgrades = <<>>
    /\ strategy_demolishes = <<>>
    /\ active_loadout = <<NameA, NameB>>
    /\ trap_lookup = <<>>

\* the fields a batch of the executor assigns, r being what the batch returned
PointDone(r, b) ==
    /\ camera_offset_y' = r.off
    /\ placed_uids' = r.placed
    /\ completed_upgrade_keys' = r.upgraded
    /\ completed_demolish_uids' = r.demolished
    /\ devlog' = r.log
    /\ cam_before' = camera_offset_y
    /\ pixel_args' = <<b.grid_x, b.grid_y, b.width, b.height>>
    /\ pixel' = get_absolute_map_pixel(map_meta, b.grid_x, b.grid_y, b.width, b.height)
    /\ camera_offset_x' = OffsetXAfter(camera_offset_x, map_meta, <<b>>)
    /\ UNCHANGED <<pc, now, waveVars, feedVars, configVars, cam_target,
                   phaseVars, runVars, lockVars, navVars>>

\* execute_specific_demolishes(vec![d])
PointDemolish ==
    \E gx \in PointGrids, gy \in PointGrids, wh \in PointExtents :
        LET d == Building(1, NameA, gx, gy, wh[1], wh[2], 1, FALSE)
            st == Exec(camera_offset_y, placed_uids, completed_upgrade_keys,
                       completed_demolish_uids, <<>>)
        IN  /\ pc = "point"
            /\ PointDone(execute_specific_demolishes(st, <<d>>, map_meta, camera_offset_x),
                         d)

\* execute_specific_placements(vec![b])
PointPlace ==
    \E gx \in PointGrids, gy \in PointGrids, wh \in PointExtents :
        LET b == Building(2, NameB, gx, gy, wh[1], wh[2], 1, FALSE)
            st == Exec(camera_offset_y, placed_uids, completed_upgrade_keys,
                       completed_demolish_uids, <<>>)
        IN  /\ pc = "point"
            /\ PointDone(execute_specific_placements(st, <<b>>, map_meta, camera_offset_x,
                                                     active_loadout), b)

NextPoint == PointDemolish \/ PointPlace

SpecPoint == InitPoint /\ [][NextPoint]_vars

\* the pointer moves the last step issued for demolish and placement items
PointerMoves ==
    SelectSeq(devlog, LAMBDA e : e.cat \in {"demolish", "place"} /\ e.act.op = "move_to")

\* C11: every pointer move issued for a placement or demolish item targets a
\* point inside the safe interaction rectangle, x1 <= x <= x2 and y1 <= y <= y2,
\* for every grid position, map metadata and camera offset.
C11_MoveInSafeRect ==
    \A i \in 1 .. Len(PointerMoves) :
        /\ SAFE_X1 <= PointerMoves[i].act.x
        /\ PointerMoves[i].act.x <= SAFE_X2
        /\ SAFE_Y1 <= PointerMoves[i].act.y
        /\ PointerMoves[i].act.y <= SAFE_Y2

\* a placement whose on-screen point lay right of and below the rectangle, with
\* the camera already scrolled: the move went to the rectangle's corner
C11_Witness ==
    /\ IsSome(pixel)
    /\ camera_offset_y > 0
    /\ Unwrap(pixel)[1] - camera_offset_x > Px(SAFE_X2)
    /\ Unwrap(pixel)[2] - camera_offset_y > Px(SAFE_Y2)
    /\ Len(PointerMoves) = 1
    /\ PointerMoves[1].cat = "place"
    /\ PointerMoves[1].act.x = SAFE_X2
    /\ PointerMoves[1].act.y = SAFE_Y2

\* how many times the last execute_wave_phase call issued the device action op
\* for the item of a category
Issued(cat, item, op) ==
    Cardinality({ i \in 1 .. Len(devlog) :
                    /\ devlog[i].cat = cat
                    /\ devlog[i].item = item
                    /\ devlog[i].act.op = op })

OncePerItem(cat, op, done_before) ==
    \A i \in 1 .. Len(devlog) :
        (devlog[i].cat = cat /\ devlog[i].act.op = op) =>
            /\ Issued(cat, devlog[i].item, op) = 1
            /\ devlog[i].item \notin done_before

\* C33: over any sequence of execute_wave_phase calls at most one upgrade
\* key-hold is issued per upgrade key, one build action per placement id and one
\* demolish action per demolish id: a call issues an item's action once, and
\* never for an item an earlier call has recorded.
C33_OncePerKey ==
    /\ OncePerItem("upgrade", "key_hold", ledger_before[2])
    /\ OncePerItem("place", "double_click", ledger_before[1])
    /\ OncePerItem("demolish", "click", ledger_before[3])

\* C28: after ensure_visible returns with map metadata loaded, target_y -
\* offset_y lies within the safe zone's vertical bounds, so the clamp into the
\* safe rectangle leaves the item's on-screen y as it is and the pointer move
\* goes to the item's own y.
C28_PointerOnOwnCell ==
    (IsSome(pixel) /\ Len(PointerMoves) = 1) =>
        /\ WithinSafeBounds(Unwrap(pixel)[2] - camera_offset_y)
        /\ PointerMoves[1].act.y = AsU16(Unwrap(pixel)[2] - camera_offset_y)

(***************************************************************************)
(* SpecPoison: execute_wave_phase when self.driver.lock() fails.  lock()   *)
(* returns Err only for a poisoned mutex, and a poisoned mutex stays       *)
(* poisoned: from then on every `if let Ok(..) = self.driver.lock()` of    *)
(* the executor skips its block.                                           *)
(***************************************************************************)
\* the loop of ensure_target_in_safe_zone when the lock fails: the offset is
\* never assigned, so a target outside the safe zone whose move is 5 pixels or
\* more keeps the loop turning unless the bottom-zone break ends it
EnsureSpins(meta, off, ty) ==
    /\ IsSome(meta)
    /\ ~InSafeBand(ty - off)
    /\ ~TooSmall(TargetOffset(off, ty, Unwrap(meta).bottom) - off)
    /\ ~IsBottomZone(ty, Unwrap(meta).bottom)

\* the ledger insert that follows the skipped block
RecordUnissued(st, cat, uid) ==
    IF cat = "place"
    THEN Exec(st.off, st.placed \cup {uid}, st.upgraded, st.demolished, st.log)
    ELSE Exec(st.off, st.placed, st.upgraded, st.demolished \cup {uid}, st.log)

\* the loop of execute_specific_demolishes or execute_specific_placements when
\* the lock fails: the executor state it reaches, and whether it is still
\* inside an ensure call
RECURSIVE PointLoopNoLock(_, _, _, _)
PointLoopNoLock(st, tasks, meta, cat) ==
    IF tasks = <<>> THEN [st |-> st, spins |-> FALSE]
    ELSE LET b == Head(tasks)
             pix == get_absolute_map_pixel(meta, b.grid_x, b.grid_y, b.width, b.height)
         IN  IF ~IsSome(pix) THEN PointLoopNoLock(st, Tail(tasks), meta, cat)
             ELSE IF EnsureSpins(meta, st.off, Unwrap(pix)[2])
                  THEN [st |-> st, spins |-> TRUE]
                  ELSE PointLoopNoLock(RecordUnissued(st, cat, b.uid), Tail(tasks),
                                       meta, cat)

\* the loop of execute_specific_upgrades when the lock fails
RECURSIVE UpgradesNoLock(_, _)
UpgradesNoLock(st, tasks) ==
    IF tasks = <<>> THEN st
    ELSE UpgradesNoLock(Exec(st.off, st.placed,
                             st.upgraded \cup {UpgradeKey(Head(tasks))},
                             st.demolished, st.log),
                        Tail(tasks))

\* execute_wave_phase when the lock fails
PhaseResultNoLock(st, strategy, meta, wave, late) ==
    LET d == PointLoopNoLock(st, ToDemolish(strategy.demolishes, st.demolished,
                                            wave, late), meta, "demolish")
        b == PointLoopNoLock(d.st, ToPlace(strategy.buildings, d.st.placed, wave, late),
                             meta, "place")
    IN  IF d.spins THEN d
        ELSE IF b.spins THEN b
        ELSE [st |-> UpgradesNoLock(b.st, ToUpgrade(strategy.upgrades, b.st.upgraded,
                                                    wave, late)),
              spins |-> FALSE]

\* a holder of the HumanDriver mutex panicked
Poison ==
    /\ pc = "phase"
    /\ driver_lock = "free"
    /\ driver_lock' = "poisoned"
    /\ UNCHANGED <<pc, now, waveVars, feedVars, configVars, camVars, devlog, pixelVars,
                   ledgerVars, phaseVars, runVars, routine, ip, device_lock, hb_pc,
                   held_prims, held_sleeps, hb_sent, navVars>>

PhaseLocked ==
    /\ driver_lock = "free"
    /\ Phase

PhasePoisoned ==
    \E wave \in Waves, late \in BOOLEAN :
        LET st == Exec(camera_offset_y, placed_uids, completed_upgrade_keys,
                       completed_demolish_uids, <<>>)
            strategy == [buildings |-> strategy_buildings,
                         upgrades |-> strategy_upgrades,
                         demolishes |-> strategy_demolishes]
            r == PhaseResultNoLock(st, strategy, map_meta, wave, late)
        IN  /\ pc = "phase"
            /\ driver_lock = "poisoned"
            /\ pc' = IF r.spins THEN "ensure_loop" ELSE "phase"
            /\ placed_uids' = r.st.placed
            /\ completed_upgrade_keys' = r.st.upgraded
            /\ completed_demolish_uids' = r.st.demolished
            /\ devlog' = <<>>
            /\ phase_call' = Some(<<wave, late>>)
            /\ phase_repeat' = (phase_call = Some(<<wave, late>>))
            /\ ledger_before' = <<placed_uids, completed_upgrade_keys,
                                  completed_demolish_uids>>
            /\ cam_before' = camera_offset_y
            /\ UNCHANGED <<now, waveVars, feedVars, configVars, camera_offset_x,
                           camera_offset_y, cam_target, pixelVars, runVars, lockVars,
                           navVars>>

NextPoison == PhaseLocked \/ Poison \/ PhasePoisoned

SpecPoison == InitPhase /\ [][NextPoison]_vars

\* the device actions the last call issued for the item of a category
IssuedFor(cat, item, op) ==
    \E i \in 1 .. Len(devlog) :
        devlog[i].cat = cat /\ devlog[i].item = item /\ devlog[i].act.op = op

\* C24: an item enters the completed ledger only right after its device action
\* was issued: an item whose lock could not be acquired is not recorded as
\* completed, and the call goes on to the next item and returns.
C24_RecordedOnlyIfIssued ==
    IsSome(phase_call) =>
        /\ \A uid \in placed_uids \ ledger_before[1] :
             IssuedFor("place", uid, "double_click")
        /\ \A uid \in completed_demolish_uids \ ledger_before[3] :
             IssuedFor("demolish", uid, "key_click")
        /\ \A key \in completed_upgrade_keys \ ledger_before[2] :
             IssuedFor("upgrade", key, "key_hold")
        /\ pc /= "ensure_loop"

\* C38: when the actuator lock cannot be acquired during
\* ensure_target_in_safe_zone the camera move is skipped, offset_y is left
\* unchanged and the call still returns, so the run continues.
C38_EnsureReturns ==
    (driver_lock = "poisoned" /\ IsSome(phase_call)) =>
        /\ devlog = <<>> => camera_offset_y = cam_before
        /\ pc = "phase"

(***************************************************************************)
(* SpecKey: get_trap_key called on any loadout with any name               *)
(***************************************************************************)

MaxLoadout == 5

NameC == <<"c">>
NameZ == <<"z">>

LoadoutNames == {NameA, NameB, NameC}

InitKey ==
    /\ pc = "key"
    /\ now = 0
    /\ NewApp
    /\ NothingLoaded
    /\ NoHistory
    /\ NoThreads
    /\ NoGraph
    /\ NoTool
    /\ NoKey
    /\ script = <<>>

GetTrapKey ==
    \E n \in 0 .. MaxLoadout : \E loadout \in [1 .. n -> LoadoutNames] :
    \E name \in LoadoutNames \cup {NameZ} :
        /\ pc = "key"
        /\ key_query' = <<loadout, name>>
        /\ key_found' = Some(get_trap_key(loadout, name))
        /\ pc' = "key_done"
        /\ UNCHANGED <<now, waveVars, feedVars, configVars, camVars, devlog, pixelVars,
                       ledgerVars, phaseVars, runVars, lockVars, nav_config, nav_graph,
                       nav_query, nav_path, scene_sample, scene_found, mainVars,
                       toolVars>>

NextKey == GetTrapKey

SpecKey == InitKey /\ [][NextKey]_vars

\* the hotkey of a loadout position (counted from 0)
PositionKey(index) == IF index < 4 THEN <<"4", "5", "6", "7">>[index + 1] ELSE "1"

\* the positions at which the loadout holds the name
PositionsOf(loadout, name) == { i \in 1 .. Len(loadout) : loadout[i] = name }

\* C35: a name at active-loadout position 0, 1, 2, 3 gets the hotkey '4', '5',
\* '6', '7' and a name at position >= 4 gets '1'; a name that is not in the
\* active loadout gets a default key different from the key of every loadout
\* position.
C35_KeyByPosition ==
    IsSome(key_found) =>
        LET loadout == key_query[1]
            name == key_query[2]
            at == PositionsOf(loadout, name)
        IN  IF at /= {}
            THEN \E i \in at : /\ \A j \in at : i <= j
                               /\ Unwrap(key_found) = PositionKey(i - 1)
            ELSE \A i \in 1 .. Len(loadout) : Unwrap(key_found) /= PositionKey(i - 1)

(***************************************************************************)
(* SpecLock: the control thread at the grain of lock scopes, primitives    *)
(* and sleeps, running beside the keep-alive thread that main spawns.      *)
(*                                                                         *)
(* self.driver is the mutex around the HumanDriver; the HumanDriver holds  *)
(* the mutex around the InputDevice, which the keep-alive thread shares.   *)
(* The wave sampler takes both explicitly.  A HumanDriver primitive        *)
(* (move_to_humanly, click_humanly, key_click, key_hold, mouse_scroll,     *)
(* double_click_humanly) takes the device mutex for its own duration.      *)
(* What each wave phase holds is left open here: any run of camera holds,  *)
(* demolitions, placements and upgrades in the executor's order.           *)
(***************************************************************************)
Step(op, act, ms) == [op |-> op, act |-> act, ms |-> ms]
NoAct == Act("", "", 0, 0, 0)

LockDriver == <<Step("lock_driver", NoAct, 0)>>
UnlockDriver == <<Step("unlock_driver", NoAct, 0)>>
SleepMs(ms) == <<Step("sleep", NoAct, ms)>>

\* a call on the device under its own mutex, as the wave sampler makes it:
\* if let Ok(mut dev) = driver.device.lock() { dev.<call>; }
DeviceCall(a) ==
    <<Step("lock_device", NoAct, 0), Step("dev", a, 0), Step("unlock_device", NoAct, 0)>>

\* a primitive of the HumanDriver: the device mutex held for that primitive
Prim(a) == DeviceCall(a)

\* self.nav.ocr_area(rect)
OcrStep == <<Step("ocr", Act("ocr", "", 0, 0, 0), 0)>>

\* run, lines 442-446: the two entry clicks under one driver lock
EnterSteps ==
    LockDriver
    \o Prim(Act("move_to", "", 1700, 950, 500)) \o Prim(Act("click", "left", 0, 0, 0))
    \o Prim(Act("move_to", "", 1110, 670, 500)) \o Prim(Act("click", "left", 0, 0, 0))
    \o UnlockDriver

\* mutant: the device guard is not dropped
SamplerKey_DeviceKept(a) ==
    LockDriver \o <<Step("lock_device", NoAct, 0), Step("dev", a, 0)>> \o UnlockDriver

\* one key event of the wave sampler: both guards dropped before the sleep
SamplerKey(a) == LockDriver \o DeviceCall(a) \o UnlockDriver

RecognizeSteps(use_tab) ==
    IF use_tab
      THEN SamplerKey(Act("key_down", "TAB", 0, 0, 0)) \o SleepMs(200)
           \o OcrStep
           \o SamplerKey(Act("key_up", "", 0, 0, 0)) \o SleepMs(50)
           \o SamplerKey(Act("key_down", "TAB", 0, 0, 0)) \o SleepMs(50)
           \o SamplerKey(Act("key_up", "", 0, 0, 0))
      ELSE OcrStep

\* select_loadout: one driver lock per known name, the sleep outside it
RECURSIVE SelectLoadoutSteps(_, _, _)
SelectLoadoutSteps(names, lookup, n) ==
    IF names = <<>> \/ n = 0 THEN <<>>
    ELSE (IF Head(names) \in DOMAIN lookup
            THEN LockDriver
                 \o Prim(Act("move_to", "", lookup[Head(names)][1],
                             lookup[Head(names)][2], 500))
                 \o Prim(Act("click", "left", 0, 0, 0))
                 \o UnlockDriver \o SleepMs(400)
            ELSE <<>>)
         \o SelectLoadoutSteps(Tail(names), lookup, n - 1)

\* execute_prep_logic: both of its lock scopes hold a sleep
PrepSteps(loadout, lookup) ==
    LockDriver
    \o Prim(Act("key_click", "n", 0, 0, 0)) \o SleepMs(1000)
    \o Prim(Act("move_to", "", 212, 294, 500)) \o Prim(Act("click", "left", 0, 0, 0))
    \o UnlockDriver
    \o SelectLoadoutSteps(loadout, lookup, 4)
    \o LockDriver \o Prim(Act("key_click", "n", 0, 0, 0)) \o SleepMs(500) \o UnlockDriver

\* setup_view: the whole alignment under one driver lock
SetupViewSteps ==
    LockDriver
    \o Prim(Act("key_click", "o", 0, 0, 0)) \o SleepMs(2000)
    \o Repeat(Repeat(Prim(Act("scroll", "", 0, -120, 0)) \o SleepMs(30), 12)
              \o SleepMs(300), 7)
    \o Repeat(Prim(Act("key_hold", "w", 0, 0, 500)) \o SleepMs(50)
              \o Prim(Act("key_hold", "a", 0, 0, 500)) \o SleepMs(50), 4)
    \o Prim(Act("key_hold", "w", 0, 0, 800)) \o Prim(Act("key_hold", "a", 0, 0, 800))
    \o UnlockDriver

\* one camera move of ensure_target_in_safe_zone, lines 355-360
CameraSteps(hold) == LockDriver \o Prim(hold) \o UnlockDriver \o SleepMs(400)

\* the device part of one demolition, lines 282-290
DemolishSteps(x, y) ==
    LockDriver
    \o Prim(Act("move_to", "", x, y, 400)) \o Prim(Act("click", "left", 0, 0, 0))
    \o SleepMs(150) \o Prim(Act("key_click", "p", 0, 0, 0))
    \o UnlockDriver \o SleepMs(300)

\* the device part of one placement, lines 307-317
PlaceSteps(x, y, key, new_key) ==
    LockDriver
    \o Prim(Act("move_to", "", x, y, 350))
    \o (IF new_key THEN Prim(Act("key_click", key, 0, 0, 0)) \o SleepMs(200) ELSE <<>>)
    \o Prim(Act("double_click", "left", 0, 0, 0))
    \o UnlockDriver \o SleepMs(250)

\* the device part of one upgrade, lines 325-331
UpgradeSteps(key) ==
    LockDriver \o Prim(Act("key_hold", key, 0, 0, 800)) \o UnlockDriver \o SleepMs(400)

\* run, lines 472-473
AdvanceSteps ==
    LockDriver \o Prim(Act("key_click", "g", 0, 0, 0)) \o UnlockDriver \o SleepMs(1000)

\* the steps of each part of run; an item of a wave phase is taken at the
\* corner of the safe rectangle, with the first loadout key
Steps(r) ==
    CASE r = "enter" -> EnterSteps
      [] r = "wait_sample" -> RecognizeSteps(FALSE)
      [] r = "wait_sleep" -> SleepMs(1000)
      [] r = "prep" -> PrepSteps(active_loadout, trap_lookup)
      [] r = "setup_view" -> SetupViewSteps
      [] r = "poll_sample" -> RecognizeSteps(TRUE)
      [] r \in {"camera_d", "camera_p", "camera_p_keyed"} ->
           CameraSteps(CameraHold(Px(120)))
      [] r = "demolish" -> DemolishSteps(SAFE_X1, SAFE_Y1)
      [] r = "place_new_key" -> PlaceSteps(SAFE_X1, SAFE_Y1, "4", TRUE)
      [] r = "place_same_key" -> PlaceSteps(SAFE_X1, SAFE_Y1, "4", FALSE)
      [] r = "upgrade" -> UpgradeSteps("4")
      [] r = "advance" -> AdvanceSteps
      [] r = "poll_sleep" -> SleepMs(10000)
      [] OTHER -> <<>>

\* what may follow routine r inside a wave phase: demolitions, then placements,
\* then upgrades; a camera move belongs to the item that follows it; the first
\* placement of a batch always selects its key
ItemsAfter(r) ==
    CASE r \in {"phase", "demolish"} ->
           {"camera_d", "demolish", "camera_p", "place_new_key", "upgrade", "end"}
      [] r = "camera_d" -> {"camera_d", "demolish"}
      [] r = "camera_p" -> {"camera_p", "place_new_key"}
      [] r = "camera_p_keyed" -> {"camera_p_keyed", "place_new_key", "place_same_key"}
      [] r \in {"place_new_key", "place_same_key"} ->
           {"camera_p_keyed", "place_new_key", "place_same_key", "upgrade", "end"}
      [] r = "upgrade" -> {"upgrade", "end"}

\* where run goes when routine r is through: the next <<pc, routine>>
NextRoutines(p, r) ==
    CASE p = "start" -> { <<"wait", "wait_sample">> }
      [] p = "wait" /\ r = "wait_sample" -> { <<"wait", "wait_sleep">>, <<"prep", "prep">> }
      [] p = "wait" /\ r = "wait_sleep" -> { <<"wait", "wait_sample">> }
      [] p = "prep" -> { <<"setup", "setup_view">> }
      [] p = "setup" -> { <<"poll", "poll_sample">> }
      [] p = "poll" -> { <<"sleep", "poll_sleep">>, <<"early", "phase">> }
      [] p = "early" ->
           { IF i = "end" THEN <<"advance", "advance">> ELSE <<"early", i>> :
               i \in ItemsAfter(r) }
      [] p = "advance" -> { <<"late", "phase">> }
      [] p = "late" ->
           { IF i = "end" THEN <<"sleep", "poll_sleep">> ELSE <<"late", i>> :
               i \in ItemsAfter(r) }
      [] p = "sleep" -> { <<"poll", "poll_sample">> }

\* main spawns the keep-alive thread, builds the app and calls run: the
\* configuration loaded, every lock free
InitLock ==
    /\ pc = "start"
    /\ now = 0
    /\ NewApp
    /\ NoHistory
    /\ NoNav
    /\ script = <<>>
    /\ map_meta \in RunMetas
    /\ strategy_buildings = <<>>
    /\ strategy_upgrades = <<>>
    /\ strategy_demolishes = <<>>
    /\ active_loadout = <<NameA, NameB>>
    /\ trap_lookup \in RunTrapTables
    /\ routine = "enter"
    /\ ip = 1
    /\ driver_lock = "free"
    /\ device_lock = "free"
    /\ hb_pc = "lock"
    /\ held_prims = 0
    /\ held_sleeps = 0
    /\ hb_sent = FALSE

otherVars == <<now, waveVars, feedVars, configVars, camVars, pixelVars, ledgerVars,
               phaseVars, runVars, navVars>>

\* the control thread takes the next step of its routine; a lock that is held
\* makes it wait
MainStep ==
    /\ ip <= Len(Steps(routine))
    /\ LET s == Steps(routine)[ip]
       IN  /\ s.op = "lock_driver" => driver_lock = "free"
           /\ s.op = "lock_device" => device_lock = "free"
           /\ driver_lock' = CASE s.op = "lock_driver" -> "main"
                               [] s.op = "unlock_driver" -> "free"
                               [] OTHER -> driver_lock
           /\ device_lock' = CASE s.op = "lock_device" -> "main"
                               [] s.op = "unlock_device" -> "free"
                               [] OTHER -> device_lock
           /\ held_prims' = CASE s.op = "lock_driver" -> 0
                              [] s.op = "dev" /\ driver_lock = "main" -> held_prims + 1
                              [] OTHER -> held_prims
           /\ held_sleeps' = CASE s.op = "lock_driver" -> 0
                               [] s.op = "sleep" /\ driver_lock = "main" -> held_sleeps + 1
                               [] OTHER -> held_sleeps
           /\ devlog' = IF s.op \in {"dev", "ocr"} THEN <<Entry(routine, 0, s.act)>>
                        ELSE devlog
    /\ ip' = ip + 1
    /\ hb_sent' = FALSE
    /\ UNCHANGED <<pc, routine, hb_pc, otherVars>>

\* its routine through, the control thread goes on to the next part of run
MainNext ==
    /\ ip > Len(Steps(routine))
    /\ \E n \in NextRoutines(pc, routine) :
         /\ pc' = n[1]
         /\ routine' = n[2]
    /\ ip' = 1
    /\ hb_sent' = FALSE
    /\ UNCHANGED <<driver_lock, device_lock, hb_pc, held_prims, held_sleeps, devlog,
                   otherVars>>

\* mutant: the guard outlives the if-let block and is held through the sleep
HbAfterBeat_KeepGuard == "hb"

\* the owner of the device mutex once `if let Ok(mut d) = hb.lock() { .. }` is
\* left: the guard is dropped with the block
HbAfterBeat == "free"

\* hb.lock(): the keep-alive thread takes the device mutex when it is free
HbLock ==
    /\ hb_pc = "lock"
    /\ device_lock = "free"
    /\ device_lock' = "hb"
    /\ hb_pc' = "beat"
    /\ hb_sent' = FALSE
    /\ UNCHANGED <<pc, routine, ip, driver_lock, held_prims, held_sleeps, devlog,
                   otherVars>>

\* d.heartbeat(), then the end of the block
HbBeat ==
    /\ hb_pc = "beat"
    /\ hb_sent' = TRUE
    /\ device_lock' = HbAfterBeat
    /\ hb_pc' = "sleep"
    /\ UNCHANGED <<pc, routine, ip, driver_lock, held_prims, held_sleeps, devlog,
                   otherVars>>

\* thread::sleep(1 s), then round the loop
HbSleep ==
    /\ hb_pc = "sleep"
    /\ hb_pc' = "lock"
    /\ hb_sent' = FALSE
    /\ UNCHANGED <<pc, routine, ip, driver_lock, device_lock, held_prims, held_sleeps,
                   devlog, otherVars>>

NextLock == MainStep \/ MainNext \/ HbLock \/ HbBeat \/ HbSleep

\* Both threads keep running.  The keep-alive thread, blocked on the device
\* mutex, gets it in the end: the control thread leaves the mutex free for the
\* whole of every sleep it makes, tens of milliseconds at the least.
SpecLock ==
    /\ InitLock
    /\ [][NextLock]_vars
    /\ WF_vars(MainStep)
    /\ WF_vars(MainNext)
    /\ SF_vars(HbLock)
    /\ WF_vars(HbBeat)
    /\ WF_vars(HbSleep)

\* C14: every primitive device action acquires the actuator lock (the mutex
\* self.driver) only for the duration of that single primitive: no lock scope
\* of the control thread spans more than one primitive, and none spans a
\* blocking wait.
C14_LockPerPrimitive ==
    /\ held_prims <= 1
    /\ held_sleeps = 0

\* the step the control thread is about to take
Pending == ip <= Len(Steps(routine))
PendingOp == Steps(routine)[ip].op

\* the control thread waits for a mutex
MainBlocked ==
    /\ Pending
    /\ \/ PendingOp = "lock_driver" /\ driver_lock /= "free"
       \/ PendingOp = "lock_device" /\ device_lock /= "free"

\* the keep-alive thread waits for the device mutex
HbBlocked == hb_pc = "lock" /\ device_lock /= "free"

SamplerRoutines == {"wait_sample", "poll_sample"}

\* C37: the keep-alive thread and the control thread never block each other:
\* the control thread holds the device mutex only inside the driver mutex, the
\* keep-alive thread takes the device mutex only, the wave sampler holds
\* neither mutex while it waits or recognises, and in no state are both threads
\* waiting for a mutex.
C37_NoDeadlock ==
    /\ [](/\ ~(MainBlocked /\ HbBlocked)
          /\ device_lock = "main" => driver_lock = "main"
          /\ driver_lock \in {"free", "main"}
          /\ MainBlocked => (PendingOp = "lock_device" /\ device_lock = "hb" /\ hb_pc = "beat"))
    /\ [][ (routine \in SamplerRoutines /\ Pending /\ ip' = ip + 1
              /\ PendingOp \in {"sleep", "ocr"}) =>
                (driver_lock = "free" /\ device_lock /= "main") ]_vars

\* the keep-alive thread waits while the wave sampler holds both mutexes for a
\* key event
C37_Witness ==
    /\ HbBlocked
    /\ routine = "poll_sample"
    /\ driver_lock = "main"
    /\ device_lock = "main"

RunPcs == {"start", "wait", "prep", "setup", "poll", "early", "advance", "late", "sleep"}

\* C15: the keep-alive thread sends its signal through the shared device
\* infinitely often, whatever the control thread is doing: from every state of
\* the control thread (the entry clicks, the initial wait, the preparation,
\* the camera alignment, a poll, a wave phase, the advance key, a poll sleep)
\* in which the keep-alive thread is after the device mutex, it gets the mutex
\* and sends the next signal; it never holds the mutex while it sleeps.
C15_KeepAlive ==
    /\ [](hb_pc = "sleep" => device_lock /= "hb")
    /\ []<>hb_sent
    /\ \A p \in RunPcs : (pc = p /\ hb_pc = "lock") ~> hb_sent

\* the signal sent in the middle of setup_view, between two primitives of the
\* control thread, which holds the driver mutex all along
C15_Witness ==
    /\ hb_sent
    /\ pc = "setup"
    /\ driver_lock = "main"
    /\ held_prims > 1
    /\ hb_pc = "sleep"
    /\ device_lock = "free"

(***************************************************************************)
(* SpecNav: the navigator's graph, load and find_path                      *)
(*                                                                         *)
(* The scene-graph configuration is the one ui_map.toml declares: scenes,  *)
(* each with its transitions in declaration order, each transition naming  *)
(* its target scene by id.  A graph maps a scene id to the sequence of the *)
(* target ids of its transitions.  NavEngine itself is described by its    *)
(* contract: load validates the targets, find_path is a breadth-first      *)
(* search.                                                                 *)
(***************************************************************************)
SceneIds == {"a", "b", "c", "d"}
MissingId == "zz"           \* an id that no scene declares
MaxEdges == 4               \* transitions declared by one configuration

\* the ids a transition may name, and the ways to declare n transitions
TargetIds == SceneIds \cup {MissingId}
TransitionLists(n) == [1..n -> TargetIds]

Loaded(graph) == <<"Ok", graph>>
ConfigError == <<"ConfigError">>
IsLoaded(r) == r /= None /\ r[1] = "Ok"

\* the targets a configuration names that no scene declares
DanglingTargets(config) ==
    UNION { { config[s][i] : i \in DOMAIN config[s] } : s \in DOMAIN config }
        \ DOMAIN config

\* load without the validation of the targets
load_Unvalidated(config) == Loaded(config)

load(config) ==
    IF DanglingTargets(config) /= {} THEN ConfigError ELSE Loaded(config)

Found(path) == <<"Path", path>>
NotFound == <<"NotFound">>
IsFound(r) == r /= None /\ r[1] = "Path"

\* a traversal that forgets what it discovers
Enqueue_Dropped(queue, scene) == queue

Enqueue(queue, scene) == Append(queue, scene)

\* the transitions of a scene taken last-declared first
TransitionOrder_Reversed(n) == [i \in 1..n |-> n + 1 - i]

\* the order in which the traversal visits the n transitions of a scene
TransitionOrder(n) == [i \in 1..n |-> i]

\* the transitions of the dequeued scene u, from the i-th visited on: a target
\* not discovered before gets the transition that discovered it and joins the
\* queue
RECURSIVE Discover(_, _, _, _, _)
Discover(graph, u, i, queue, parent) ==
    IF i > Len(graph[u]) THEN <<queue, parent>>
    ELSE LET k == TransitionOrder(Len(graph[u]))[i]
             v == graph[u][k]
         IN IF v \in DOMAIN parent
            THEN Discover(graph, u, i + 1, queue, parent)
            ELSE Discover(graph, u, i + 1, Enqueue(queue, v),
                          parent @@ (v :> <<u, k>>))

RECURSIVE Bfs(_, _, _, _)
Bfs(graph, target, queue, parent) ==
    IF target \in DOMAIN parent THEN Some(parent)
    ELSE IF queue = <<>> THEN None
    ELSE LET d == Discover(graph, Head(queue), 1, Tail(queue), parent)
         IN Bfs(graph, target, d[1], d[2])

\* the transitions from the start to v, read back from the discoveries
RECURSIVE PathTo(_, _)
PathTo(parent, v) ==
    IF parent[v] = <<>> THEN <<>>
    ELSE Append(PathTo(parent, parent[v][1]),
                [from |-> parent[v][1], index |-> parent[v][2], target |-> v])

find_path(graph, start, target) ==
    LET found == Bfs(graph, target, <<start>>, (start :> <<>>))
    IN IF found = None THEN NotFound ELSE Found(PathTo(Unwrap(found), target))

InitNav ==
    /\ pc = "nav_load"
    /\ now = 0
    /\ NewApp
    /\ NothingLoaded
    /\ NoHistory
    /\ NoThreads
    /\ script = <<>>
    /\ \E na, nb, nc, nd \in 0..MaxEdges :
        /\ na + nb + nc + nd <= MaxEdges
        /\ \E ta \in TransitionLists(na), tb \in TransitionLists(nb),
              tc \in TransitionLists(nc), td \in TransitionLists(nd) :
            nav_config = [a |-> ta, b |-> tb, c |-> tc, d |-> td]
    /\ nav_graph = None
    /\ nav_query = <<>>
    /\ nav_path = None
    /\ scene_sample = {}
    /\ scene_found = None
    /\ NoMain
    /\ NoSide

navRest == <<now, waveVars, feedVars, configVars, camVars, devlog, pixelVars,
             ledgerVars, phaseVars, runVars, lockVars, mainVars, keyVars, toolVars>>

\* NavEngine::new("ui_map.toml", ..)
NavLoad ==
    /\ pc = "nav_load"
    /\ nav_graph' = load(nav_config)
    /\ pc' = IF IsLoaded(nav_graph') THEN "nav_ready" ELSE "nav_error"
    /\ UNCHANGED <<nav_config, nav_query, nav_path, scene_sample, scene_found, navRest>>

\* the path search of navigate, from the scene it is in to the one asked for
NavFind(start, target) ==
    /\ pc = "nav_ready"
    /\ pc' = "nav_searched"
    /\ nav_query' = <<start, target>>
    /\ nav_path' = find_path(nav_graph[2], start, target)
    /\ UNCHANGED <<nav_config, nav_graph, scene_sample, scene_found, navRest>>

NextNav ==
    \/ NavLoad
    \/ \E start \in SceneIds, target \in SceneIds : NavFind(start, target)

SpecNav == InitNav /\ [][NextNav]_vars

\* the targets of the transitions of the scenes of S
Successors(graph, S) ==
    UNION { { graph[u][i] : i \in DOMAIN graph[u] } : u \in S }

\* the number of transitions of a shortest path to target from the start,
\* given the scenes W at most k transitions away from it; None when no more
\* scenes can be reached
RECURSIVE DistanceFrom(_, _, _, _)
DistanceFrom(graph, W, target, k) ==
    IF target \in W THEN Some(k)
    ELSE IF Successors(graph, W) \subseteq W THEN None
    ELSE DistanceFrom(graph, W \cup Successors(graph, W), target, k + 1)

Reachable(graph, start, target) == IsSome(DistanceFrom(graph, {start}, target, 0))

\* the true shortest-path distance of a reachable target
Distance(graph, start, target) == Unwrap(DistanceFrom(graph, {start}, target, 0))

\* path is made of transitions of the graph that chain from start to target
Chained(graph, start, target, path) ==
    /\ \A i \in 1..Len(path) :
        /\ path[i].from \in DOMAIN graph
        /\ path[i].index \in 1..Len(graph[path[i].from])
        /\ graph[path[i].from][path[i].index] = path[i].target
    /\ \A i \in 1..(Len(path) - 1) : path[i].target = path[i + 1].from
    /\ IF path = <<>> THEN start = target
       ELSE path[1].from = start /\ path[Len(path)].target = target

\* C17: for any graph, cycles and self-loops included, find_path returns for a
\* reachable target a path of as many transitions as the true shortest-path
\* distance, chained from start to target; the empty path when start = target;
\* NotFound when the target is unreachable
C17_ShortestPath ==
    nav_query /= <<>> =>
        LET graph == nav_graph[2]
            start == nav_query[1]
            target == nav_query[2]
        IN /\ Reachable(graph, start, target) =>
                /\ IsFound(nav_path)
                /\ Len(nav_path[2]) = Distance(graph, start, target)
                /\ Chained(graph, start, target, nav_path[2])
           /\ start = target => nav_path = Found(<<>>)
           /\ ~Reachable(graph, start, target) => nav_path = NotFound

\* a two-transition path returned in a graph where the start has a self-loop
\* and the target leads back to the start
C17_Witness ==
    /\ IsFound(nav_path)
    /\ Len(nav_path[2]) = 2
    /\ nav_query[1] \in Successors(nav_graph[2], {nav_query[1]})
    /\ nav_query[1] \in Successors(nav_graph[2], {nav_query[2]})

\* the transitions of the scene `from` declared before the index-th that start
\* a path to target of `left` transitions
EarlierShortest(graph, from, index, target, left) ==
    { i \in 1..(index - 1) :
        /\ Reachable(graph, graph[from][i], target)
        /\ Distance(graph, graph[from][i], target) = left - 1 }

\* C18: among several shortest paths find_path returns the one the FIFO
\* traversal discovers first when it visits each scene's transitions in
\* declaration order: at no scene of the returned path does a transition
\* declared earlier start a path of the same length
C18_FirstDeclaredShortest ==
    IsFound(nav_path) =>
        LET path == nav_path[2]
        IN \A j \in 1..Len(path) :
            EarlierShortest(nav_graph[2], path[j].from, path[j].index,
                            nav_query[2], Len(path) - j + 1) = {}

\* two shortest paths of two transitions through different scenes, the one
\* through the first-declared transition returned
C18_Witness ==
    /\ IsFound(nav_path)
    /\ Len(nav_path[2]) = 2
    /\ nav_path[2][1].index = 1
    /\ LET graph == nav_graph[2]
           start == nav_query[1]
       IN \E i \in 2..Len(graph[start]) :
            /\ graph[start][i] /= nav_path[2][1].target
            /\ nav_query[2] \in Successors(graph, {graph[start][i]})

\* C19: a configuration in which a transition names a scene id that does not
\* exist fails to load with ConfigError; a loaded graph has no transition
\* whose target is missing, and a path search over it only meets existing
\* scenes
C19_NoDanglingTarget ==
    /\ (nav_graph /= None /\ DanglingTargets(nav_config) /= {})
            => nav_graph = ConfigError
    /\ IsLoaded(nav_graph) => Successors(nav_graph[2], DOMAIN nav_graph[2])
                                  \subseteq DOMAIN nav_graph[2]
    /\ IsFound(nav_path) =>
            \A i \in 1..Len(nav_path[2]) : nav_path[2][i].target \in DOMAIN nav_graph[2]

\* a configuration with a missing target, after its load
C19_Witness ==
    /\ pc = "nav_error"
    /\ nav_graph = ConfigError
    /\ MissingId \in DanglingTargets(nav_config)

(***************************************************************************)
(* SpecScene: identify_current_scene                                       *)
(*                                                                         *)
(* A configuration declares its scenes in order, each with a recognition   *)
(* combinator and its anchors; a live sample is the set of the anchors     *)
(* that match on the screen.  A scene is named by its place in the         *)
(* declaration order.                                                      *)
(***************************************************************************)
AnchorIds == {"x", "y"}
MaxDeclared == 3            \* scenes declared by one configuration

\* RecognitionLogic
AND == "and"
OR == "or"

SceneDecls == [logic : {AND, OR}, anchors : SUBSET AnchorIds]
SceneLists == UNION { [1..n -> SceneDecls] : n \in 0..MaxDeclared }

\* the combinator of a scene over its anchors, against the sample
Matches(scene, matching) ==
    IF scene.logic = OR
    THEN \E a \in scene.anchors : a \in matching
    ELSE \A a \in scene.anchors : a \in matching

\* the scenes are sampled in declaration order, from the i-th on
RECURSIVE FirstMatch(_, _, _)
FirstMatch(scenes, matching, i) ==
    IF i > Len(scenes) THEN None
    ELSE IF Matches(scenes[i], matching) THEN Some(i)
    ELSE FirstMatch(scenes, matching, i + 1)

\* a scan that keeps the last scene that matches
RECURSIVE LastMatch(_, _, _)
LastMatch(scenes, matching, i) ==
    IF i < 1 THEN None
    ELSE IF Matches(scenes[i], matching) THEN Some(i)
    ELSE LastMatch(scenes, matching, i - 1)

identify_current_scene_Last(scenes, matching) == LastMatch(scenes, matching, Len(scenes))

identify_current_scene(scenes, matching) == FirstMatch(scenes, matching, 1)

InitScene ==
    /\ pc = "identify"
    /\ now = 0
    /\ NewApp
    /\ NothingLoaded
    /\ NoHistory
    /\ NoThreads
    /\ script = <<>>
    /\ nav_config \in SceneLists
    /\ nav_graph = None
    /\ nav_query = <<>>
    /\ nav_path = None
    /\ scene_sample = {}
    /\ scene_found = None
    /\ NoMain
    /\ NoSide

Identify(matching) ==
    /\ pc = "identify"
    /\ scene_sample' = matching
    /\ scene_found' = identify_current_scene(nav_config, matching)
    /\ UNCHANGED <<pc, nav_config, nav_graph, nav_query, nav_path, navRest>>

NextScene == \E matching \in SUBSET AnchorIds : Identify(matching)

SpecScene == InitScene /\ [][NextScene]_vars

\* ALL-of: every anchor matches; ANY-of: at least one anchor matches
Satisfied(scene, matching) ==
    \/ scene.logic = AND /\ scene.anchors \subseteq matching
    \/ scene.logic = OR /\ scene.anchors \cap matching /= {}

\* C20: the scene identify_current_scene returns has its combinator satisfied
\* by the live sample, and no scene declared before it has
C20_FirstSatisfiedScene ==
    IsSome(scene_found) =>
        /\ Unwrap(scene_found) \in 1..Len(nav_config)
        /\ Satisfied(nav_config[Unwrap(scene_found)], scene_sample)
        /\ \A j \in 1..(Unwrap(scene_found) - 1) :
                ~Satisfied(nav_config[j], scene_sample)

\* the first scene does not match, the second is returned, an ANY-of scene and
\* an ALL-of scene with anchors both match
C20_Witness ==
    /\ scene_found = Some(2)
    /\ Len(nav_config) = 3
    /\ ~Satisfied(nav_config[1], scene_sample)
    /\ Satisfied(nav_config[3], scene_sample)
    /\ nav_config[2].logic /= nav_config[3].logic
    /\ nav_config[2].anchors /= {}
    /\ nav_config[3].anchors /= {}

-----------------------------------------------------------------------------
(* SpecMain: main's normal flow.  The engine is loaded, navigate(target)    *)
(* identifies the current scene, finds a path and executes it transition by *)
(* transition; main then matches on the NavResult and starts the strategy   *)
(* executor on Handover only.                                               *)

\* the three variants main matches on
Handover(scene_id) == <<"Handover", scene_id>>
Success == <<"Success">>
Failed == <<"Failed">>

IsHandover(r) == r[1] = "Handover"

\* scenes whose declaration carries a handler
HandlerScenes == {"d"}

\* post_delay of the transitions declared on a scene, in whole seconds
PostDelays == [a |-> 1, b |-> 2, c |-> 1, d |-> 2]

\* ui_map.toml files: a chain, a diamond with a back edge, a cycle that
\* never reaches d
MainConfigs ==
    { [a |-> <<"b">>, b |-> <<"c">>, c |-> <<"d">>, d |-> <<>>],
      [a |-> <<"b", "c">>, b |-> <<"d">>, c |-> <<"d">>, d |-> <<"a">>],
      [a |-> <<"b">>, b |-> <<"a">>, c |-> <<"d">>, d |-> <<>>] }

\* what navigate returns for each way it can end
navigate_result(outcome, target) ==
    IF outcome = "arrived"
    THEN IF target \in HandlerScenes THEN Handover(target) ELSE Success
    ELSE Failed

\* execute_path: the re-identified scene is the transition's target
Confirmed_Always(expected, seen) == TRUE

Confirmed(expected, seen) == seen = Some(expected)

\* main's match: only the Handover arm builds TowerDefenseApp and calls run
StartsStrategy_OnArrival(result) == result[1] \in {"Handover", "Success"}

StartsStrategy(result) == IsHandover(result)

ThePath == nav_path[2]

InitMain ==
    /\ pc = "main"
    /\ now = 0
    /\ NewApp
    /\ NothingLoaded
    /\ NoHistory
    /\ NoThreads
    /\ script = <<>>
    /\ \E config \in MainConfigs :
        /\ nav_config = config
        /\ nav_graph = load(config)
    /\ nav_query = <<>>
    /\ nav_path = None
    /\ scene_sample = {}
    /\ scene_found = None
    /\ NoMain
    /\ NoSide

mainRest == <<waveVars, feedVars, configVars, camVars, pixelVars, ledgerVars, phaseVars,
              runVars, lockVars, nav_config, nav_graph, scene_sample, keyVars, toolVars>>

\* navigate ends: the result reaches main
NavigateReturns(outcome, target) ==
    /\ nav_outcome' = outcome
    /\ nav_result' = Some(navigate_result(outcome, target))
    /\ pc' = "dispatch"

\* navigate(target): identify the current scene, find the path
NavBegin(start, target) ==
    /\ pc = "main"
    /\ IsLoaded(nav_graph)
    /\ nav_query' = <<start, target>>
    /\ scene_found' = Some(start)
    /\ LET r == find_path(nav_graph[2], start, target)
       IN  /\ nav_path' = r
           /\ IF ~IsFound(r) THEN /\ NavigateReturns("not_found", target)
                                  /\ nav_step' = 0
              ELSE IF r[2] = <<>> THEN /\ NavigateReturns("arrived", target)
                                       /\ nav_step' = 0
              ELSE /\ nav_step' = 1
                   /\ pc' = "exec_trigger"
                   /\ UNCHANGED <<nav_outcome, nav_result>>
    /\ UNCHANGED <<now, devlog, mainRest>>

\* execute_path: issue the trigger action of the current transition
ExecTrigger ==
    /\ pc = "exec_trigger"
    /\ LET t == ThePath[nav_step]
       IN devlog' = Append(devlog, Entry("nav", nav_step, Act("trigger", t.from, t.index, 0, 0)))
    /\ pc' = "exec_settle"
    /\ UNCHANGED <<now, mainRest, nav_query, nav_path, scene_found, mainVars>>

\* execute_path: wait the transition's settle delay
ExecSettle ==
    /\ pc = "exec_settle"
    /\ LET secs == PostDelays[ThePath[nav_step].from]
       IN  /\ now' = now + secs
           /\ devlog' = Append(devlog, Entry("nav", nav_step, Act("settle", "", 0, 0, secs * 1000)))
    /\ pc' = "exec_identify"
    /\ UNCHANGED <<mainRest, nav_query, nav_path, scene_found, mainVars>>

\* execute_path: re-identify the current scene and confirm the progress
ExecIdentify(seen) ==
    /\ pc = "exec_identify"
    /\ scene_found' = seen
    /\ devlog' = Append(devlog, Entry("nav", nav_step,
                        Act("identify", IF IsSome(seen) THEN Unwrap(seen) ELSE "", 0, 0, 0)))
    /\ IF ~Confirmed(ThePath[nav_step].target, seen)
       THEN /\ NavigateReturns("exec_failed", nav_query[2])
            /\ UNCHANGED nav_step
       ELSE IF nav_step = Len(ThePath)
       THEN /\ NavigateReturns("arrived", nav_query[2])
            /\ UNCHANGED nav_step
       ELSE /\ nav_step' = nav_step + 1
            /\ pc' = "exec_trigger"
            /\ UNCHANGED <<nav_outcome, nav_result>>
    /\ UNCHANGED <<now, mainRest, nav_query, nav_path>>

\* main: match nav_result
MainDispatch ==
    /\ pc = "dispatch"
    /\ pc' = IF StartsStrategy(Unwrap(nav_result)) THEN "start" ELSE "exit"
    /\ UNCHANGED <<now, devlog, mainRest, nav_query, nav_path, scene_found, mainVars>>

NextMain ==
    \/ \E start \in SceneIds, target \in TargetIds : NavBegin(start, target)
    \/ ExecTrigger
    \/ ExecSettle
    \/ \E seen \in {None} \cup { Some(s) : s \in SceneIds } : ExecIdentify(seen)
    \/ MainDispatch
    \/ RunStart

SpecMain == InitMain /\ [][NextMain]_vars

\* the device log of execute_path
NavLog == SelectSeq(devlog, LAMBDA e : e.cat = "nav")

NavOps == <<"trigger", "settle", "identify">>

\* the transition the i-th entry of the log belongs to
StepOf(i) == ((i - 1) \div Len(NavOps)) + 1

OpOf(i) == NavOps[((i - 1) % Len(NavOps)) + 1]

Mismatch(e, t) == e.act.op = "identify" /\ e.act.key /= t.target

\* C21: execute_path handles the transitions of the path in order, each as
\* trigger, settle wait, re-identification; a re-identified scene other than the
\* transition's target ends it with an execution failure, no later trigger issued.
C21_TriggerSettleIdentify ==
    IF ~IsFound(nav_path) THEN NavLog = <<>>
    ELSE /\ Len(NavLog) <= Len(NavOps) * Len(ThePath)
         /\ \A i \in 1..Len(NavLog) :
              LET e == NavLog[i]
                  t == ThePath[StepOf(i)]
              IN  /\ e.item = StepOf(i)
                  /\ e.act.op = OpOf(i)
                  /\ e.act.op = "trigger" => e.act.key = t.from /\ e.act.x = t.index
                  /\ e.act.op = "settle" => e.act.ms = PostDelays[t.from] * 1000
                  /\ Mismatch(e, t) => i = Len(NavLog) /\ nav_outcome = "exec_failed"
         /\ nav_outcome = "exec_failed" =>
              /\ NavLog /= <<>>
              /\ Mismatch(NavLog[Len(NavLog)], ThePath[StepOf(Len(NavLog))])
         /\ nav_outcome = "arrived" => Len(NavLog) = Len(NavOps) * Len(ThePath)

\* a path of three transitions aborted at the second re-identification
C21_Witness ==
    /\ IsFound(nav_path)
    /\ Len(ThePath) = 3
    /\ nav_outcome = "exec_failed"
    /\ Len(NavLog) = 2 * Len(NavOps)
    /\ pc = "exit"

\* C22: with no graph path to the target, navigation yields a result the caller
\* can tell from the result of an execution failure.
C22_NotFoundDistinct ==
    nav_outcome = "not_found" =>
        nav_result /= Some(navigate_result("exec_failed", nav_query[2]))

StrategyActions == \E i \in 1..Len(devlog) : devlog[i].cat /= "nav"

\* C23: TowerDefenseApp::run starts, and a strategy device action is issued, only
\* after navigate returned Handover; after Failed or Success none is ever issued.
C23_RunOnlyOnHandover ==
    /\ (pc \in {"start", "wait"} \/ StrategyActions) =>
          nav_result /= None /\ IsHandover(Unwrap(nav_result))
    /\ nav_result \in {Some(Success), Some(Failed)} =>
          ~StrategyActions /\ pc \in {"dispatch", "exit"}

\* run has entered the game after a navigation over a non-empty path
C23_Witness ==
    /\ pc = "wait"
    /\ StrategyActions
    /\ NavLog /= <<>>
    /\ nav_result = Some(Handover("d"))

(***************************************************************************)
(* SpecTool: the scene list of the scene-graph authoring tool under its    *)
(* scene operations.  A scene is held by its id; the number that           *)
(* add_new_scene and duplicate_current_scene put into a new id is kept,    *)
(* the id a copy is made from is cut to its first part.                    *)
(***************************************************************************)
MaxScenes == 3

\* toml_content: blank, not a TomlRoot, or a TomlRoot with its scene ids
Blank == <<"blank">>
Malformed == <<"malformed">>
Parsed(ids) == <<"root", ids>>

TomlContents ==
    { Blank, Malformed, Parsed(<<>>), Parsed(<< <<"a">> >>),
      Parsed(<< <<"a">>, <<"b">> >>) }

\* Vec::remove(index), index counted from 0
RemoveAt(seq, index) == SubSeq(seq, 1, index) \o SubSeq(seq, index + 2, Len(seq))

\* &self.scenes[self.current_scene_index] does not panic
CurrentSceneExists == current_scene_index < Len(tool_scenes)

\* MapBuilderTool::new: one initial scene, selected
InitTool ==
    /\ pc = "tool"
    /\ now = 0
    /\ NewApp
    /\ NothingLoaded
    /\ NoHistory
    /\ NoThreads
    /\ NoGraph
    /\ NoKey
    /\ script = <<>>
    /\ tool_scenes = << <<"lobby_01">> >>
    /\ current_scene_index = 0

toolRest == <<now, waveVars, feedVars, configVars, camVars, devlog, pixelVars,
              ledgerVars, phaseVars, runVars, lockVars, nav_config, nav_graph,
              nav_query, nav_path, scene_sample, scene_found, mainVars, keyVars>>

add_new_scene ==
    /\ pc = "tool"
    /\ Len(tool_scenes) < MaxScenes
    /\ tool_scenes' = Append(tool_scenes, <<"scene", Len(tool_scenes) + 1>>)
    /\ current_scene_index' = Len(tool_scenes') - 1
    /\ UNCHANGED <<pc, toolRest>>

delete_current_scene ==
    /\ pc = "tool"
    /\ IF Len(tool_scenes) > 1
       THEN IF CurrentSceneExists
            THEN /\ tool_scenes' = RemoveAt(tool_scenes, current_scene_index)
                 /\ current_scene_index' =
                        IF current_scene_index >= Len(tool_scenes')
                        THEN Len(tool_scenes') - 1 ELSE current_scene_index
                 /\ UNCHANGED pc
            ELSE /\ pc' = "tool_panic"
                 /\ UNCHANGED toolVars
       ELSE UNCHANGED <<pc, toolVars>>
    /\ UNCHANGED toolRest

duplicate_current_scene ==
    /\ pc = "tool"
    /\ Len(tool_scenes) < MaxScenes
    /\ IF CurrentSceneExists
       THEN /\ tool_scenes' =
                Append(tool_scenes,
                       <<tool_scenes[current_scene_index + 1][1], Len(tool_scenes) + 1>>)
            /\ current_scene_index' = Len(tool_scenes') - 1
            /\ UNCHANGED pc
       ELSE /\ pc' = "tool_panic"
            /\ UNCHANGED toolVars
    /\ UNCHANGED toolRest

\* where import_toml leaves the index
IndexAfterImport(index, imported) == IF imported /= <<>> THEN 0 ELSE index

import_toml(content) ==
    /\ pc = "tool"
    /\ IF content[1] = "root"
       THEN /\ tool_scenes' = content[2]
            /\ current_scene_index' = IndexAfterImport(current_scene_index, content[2])
       ELSE UNCHANGED toolVars
    /\ UNCHANGED <<pc, toolRest>>

\* a click on a scene of the list
SelectScene(i) ==
    /\ pc = "tool"
    /\ i < Len(tool_scenes)
    /\ current_scene_index' = i
    /\ UNCHANGED <<pc, tool_scenes, toolRest>>

\* a frame of update: the property panel takes current_scene_mut()
ToolFrame ==
    /\ pc = "tool"
    /\ pc' = IF CurrentSceneExists THEN "tool" ELSE "tool_panic"
    /\ UNCHANGED <<toolVars, toolRest>>

NextTool ==
    \/ add_new_scene
    \/ delete_current_scene
    \/ duplicate_current_scene
    \/ \E content \in TomlContents : import_toml(content)
    \/ \E i \in 0 .. MaxScenes - 1 : SelectScene(i)
    \/ ToolFrame

SpecTool == InitTool /\ [][NextTool]_vars

\* C39: after any sequence of add_new_scene, duplicate_current_scene,
\* delete_current_scene and import_toml operations the scene list is non-empty
\* and current_scene_index is a valid index into it.
C39_CurrentSceneValid ==
    /\ tool_scenes /= <<>>
    /\ current_scene_index < Len(tool_scenes)
    /\ pc = "tool"

=============================================================================
